---- MODULE Spec2Model ----
(***************************************************************************)
(* A model of src/OpenFlight.py: the OpenFlight database reader.  One      *)
(* OpenFlight object (doc) is driven by a caller that invokes isOpenFlight *)
(* and ReadFile; ReadFile's dispatch loop is followed one iteration at a   *)
(* time.  Files are byte streams; every read of the code is a read of the  *)
(* bytes at the handle's position.                                         *)
(***************************************************************************)
EXTENDS Integers, Sequences, FiniteSets, TLC

VARIABLES
    fs,       \* the disk: file name -> file; chosen at the start, never written
    doc,      \* the OpenFlight object: every self.* field
    pc,       \* where the caller is: "idle" (between calls) or "loop" (inside ReadFile's while)
    outcome,  \* how the last call ended: [call, how, value]
    calls,    \* number of calls the caller has made
    rf,       \* ReadFile's frame: what its last pass of the loop saw
    was       \* the object as the last step found it

vars == <<fs, doc, pc, outcome, calls, rf, was>>

(***************************************************************************)
(* Bounds of the model.                                                    *)
(***************************************************************************)
MaxRecords == 3      \* longest record sequence drawn freely from Alphabet
MaxCalls == 2        \* calls the caller makes on one object
MaxDepth == 2        \* external references followed below the file read

(***************************************************************************)
(* Python values.                                                          *)
(***************************************************************************)
None == -1           \* self.f / self._LastPlace / self._Chunk when unset
NoErr == ""          \* no exception raised

\* str(type) + message of the exceptions the code raises
ErrStruct == "struct.error: unpack requires a string argument of other length"
ErrObsolete == "Exception: Unable to continue. File uses obsolete codes."
ErrUnknown == "Exception: Unable to continue OpenFlight Opcode not recognised."
ErrLength(name) == "Exception: Unexpected " \o name \o " record length"
ErrHeader == "Exception: Another header found in file."
ErrContinuation == "Exception: Unexpected continuation record."
ErrPop == "Exception: Tree stack is empty: nothing to pop."
ErrInstRef == "Exception: Could not find an instance to reference"
ErrInstDef == "Exception: Instance definition number has already been declared."
ErrNotConform == "Exception: Unable to continue. File does not conform to OpenFlight standards."
ErrNoFile == "IOError: Could not find file."
ErrField == "Exception: Unable to determine field value."
ErrNameTable == "Exception: Name table entry exceeds the maximum allowable size."
ErrNav == "IndexError/KeyError: the stack addresses nothing"
ErrAttr == "AttributeError: object has no such attribute"
ErrName == "NameError/TypeError: name is not defined"
ErrPopEmpty == "IndexError: pop from empty list"
ErrSeek == "IOError: [Errno 22] Invalid argument"
ErrTranslate == "IOError: Unable to translate filename."
ErrNoTexture == "IOError: Could not find texture file."
ErrRecursion == "RuntimeError: maximum recursion depth exceeded"
ErrZeroDiv == "ZeroDivisionError: integer division or modulo by zero"

(***************************************************************************)
(* The file system.  A file is a sequence of records as written on disk;   *)
(* a record is its 2-byte opcode, its 2-byte declared length and n body    *)
(* bytes, all `fill` except those given in `set` (body offset :> byte).    *)
(***************************************************************************)
Rec(op, len, n, fill, set) == [op |-> op, len |-> len, n |-> n, fill |-> fill, set |-> set]

\* A body of zeros whose size agrees with the declared length.
Plain(op, len) == Rec(op, len, len - 4, 0, <<>>)

RecSize(r) == 4 + r.n

\* The k-th byte (from 0) of a record on disk, big-endian fields.
RecByte(r, k) ==
    CASE k = 0 -> (r.op % 65536) \div 256
      [] k = 1 -> r.op % 256
      [] k = 2 -> r.len \div 256
      [] k = 3 -> r.len % 256
      [] OTHER -> IF (k - 4) \in DOMAIN r.set THEN r.set[k - 4] ELSE r.fill

RECURSIVE SizeFrom(_, _)
SizeFrom(recs, i) == IF i > Len(recs) THEN 0 ELSE RecSize(recs[i]) + SizeFrom(recs, i + 1)

\* os.stat(fileName).st_size
FileSize(file) == SizeFrom(file.recs, 1)

RECURSIVE ByteFrom(_, _, _)
ByteFrom(recs, i, off) ==
    IF off < RecSize(recs[i]) THEN RecByte(recs[i], off)
    ELSE ByteFrom(recs, i + 1, off - RecSize(recs[i]))

\* The byte at offset off (0 <= off < FileSize(file)).
ByteAt(file, off) == ByteFrom(file.recs, 1, off)

\* Offset of the i-th record of a file.
RECURSIVE RecStart(_, _)
RecStart(file, i) == IF i <= 1 THEN 0 ELSE RecStart(file, i - 1) + RecSize(file.recs[i - 1])

\* struct.unpack('>H' / '>I' / '>B', ...): the unsigned big-endian value of n bytes at off.
\* A 4-byte value of 2^31 or more stands as 2^31 - 1, the largest number at hand.
RECURSIVE Unsigned(_, _, _)
Unsigned(file, off, n) ==
    IF n = 0 THEN 0
    ELSE IF n = 4 /\ ByteAt(file, off) >= 128 THEN 2147483647
    ELSE Unsigned(file, off, n - 1) * 256 + ByteAt(file, off + n - 1)

\* struct.unpack('>h' / '>i', ...): two's complement.
Signed(file, off, n) ==
    LET weight == IF n = 1 THEN 1 ELSE IF n = 2 THEN 256 ELSE 16777216
        value(top, rest) == IF top >= 128 THEN (top - 256) * weight + rest ELSE top * weight + rest
    IN  value(ByteAt(file, off), Unsigned(file, off + 1, n - 1))

(***************************************************************************)
(* __init__: the opcode registry (decoder, fixed size or None, name) and   *)
(* the obsolete opcodes.                                                   *)
(***************************************************************************)
OpCodes0 ==
    0 :> [fn |-> "opReserved", size |-> None, name |-> "padding"] @@
    1 :> [fn |-> "opHeader", size |-> 324, name |-> "header"] @@
    2 :> [fn |-> "opGroup", size |-> 44, name |-> "group"] @@
    4 :> [fn |-> "opObject", size |-> 28, name |-> "object"] @@
    5 :> [fn |-> "opFace", size |-> 80, name |-> "face"] @@
    10 :> [fn |-> "opPush", size |-> 4, name |-> "push"] @@
    11 :> [fn |-> "opPop", size |-> 4, name |-> "pop"] @@
    14 :> [fn |-> "opDoF", size |-> 384, name |-> "degree of freedom"] @@
    19 :> [fn |-> "opPushSubface", size |-> 4, name |-> "push subface"] @@
    20 :> [fn |-> "opPopSubface", size |-> 4, name |-> "pop subface"] @@
    21 :> [fn |-> "opPushExtension", size |-> 24, name |-> "push extension"] @@
    22 :> [fn |-> "opPopExtension", size |-> 24, name |-> "pop extension"] @@
    23 :> [fn |-> "opContinuation", size |-> None, name |-> "continuation"] @@
    31 :> [fn |-> "opComment", size |-> None, name |-> "comment"] @@
    32 :> [fn |-> "opColourPalette", size |-> None, name |-> "colour palette"] @@
    33 :> [fn |-> "opLongID", size |-> None, name |-> "long ID"] @@
    49 :> [fn |-> "opMatrix", size |-> 68, name |-> "matrix"] @@
    50 :> [fn |-> "opVector", size |-> 16, name |-> "vector"] @@
    52 :> [fn |-> "opMultitexture", size |-> None, name |-> "multitexture"] @@
    53 :> [fn |-> "opUVList", size |-> 8, name |-> "UV list"] @@
    55 :> [fn |-> "opBSP", size |-> 48, name |-> "binary separating plane"] @@
    60 :> [fn |-> "opReplicate", size |-> 8, name |-> "replicate"] @@
    61 :> [fn |-> "opInstRef", size |-> 8, name |-> "instance reference"] @@
    62 :> [fn |-> "opInstDef", size |-> 8, name |-> "instance definition"] @@
    63 :> [fn |-> "opExtRef", size |-> 216, name |-> "external reference"] @@
    64 :> [fn |-> "opTexturePalette", size |-> 216, name |-> "texture palette"] @@
    67 :> [fn |-> "opVertexPalette", size |-> 8, name |-> "vertex palette"] @@
    68 :> [fn |-> "opVertexColour", size |-> 40, name |-> "vertex with colour"] @@
    69 :> [fn |-> "opVertexColNorm", size |-> 56, name |-> "vertex with colour and normal"] @@
    70 :> [fn |-> "opVertexColNormUV", size |-> 64, name |-> "vertex with colour, normal and UV"] @@
    71 :> [fn |-> "opVertexColUV", size |-> 48, name |-> "vertex with colour and UV"] @@
    72 :> [fn |-> "opVertexList", size |-> None, name |-> "vertex list"] @@
    73 :> [fn |-> "opLoD", size |-> 80, name |-> "level of detail"] @@
    74 :> [fn |-> "opBoundingBox", size |-> 52, name |-> "bounding box"] @@
    76 :> [fn |-> "opRotEdge", size |-> 64, name |-> "rotate about edge"] @@
    78 :> [fn |-> "opTranslate", size |-> 56, name |-> "translate"] @@
    79 :> [fn |-> "opScale", size |-> 48, name |-> "scale"] @@
    80 :> [fn |-> "opRotPoint", size |-> 48, name |-> "rotate about point"] @@
    81 :> [fn |-> "opRotScPoint", size |-> 96, name |-> "rotate and/or scale to point"] @@
    82 :> [fn |-> "opPut", size |-> 152, name |-> "put"] @@
    83 :> [fn |-> "opEyeTrackPalette", size |-> 4008, name |-> "eyepoint and trackplane palette"] @@
    84 :> [fn |-> "opMesh", size |-> 84, name |-> "mesh"] @@
    85 :> [fn |-> "opLocVertexPool", size |-> None, name |-> "local vertex pool"] @@
    86 :> [fn |-> "opMeshPrim", size |-> None, name |-> "mesh primitive"] @@
    87 :> [fn |-> "opRoadSeg", size |-> 12, name |-> "road segment"] @@
    88 :> [fn |-> "opRoadZone", size |-> 176, name |-> "road zone"] @@
    89 :> [fn |-> "opMorphVertex", size |-> None, name |-> "morph vertex list"] @@
    90 :> [fn |-> "opLinkPalette", size |-> None, name |-> "linkage palette"] @@
    91 :> [fn |-> "opSound", size |-> 88, name |-> "sound"] @@
    92 :> [fn |-> "opRoadPath", size |-> 632, name |-> "road path"] @@
    93 :> [fn |-> "opSoundPalette", size |-> None, name |-> "sound palette"] @@
    94 :> [fn |-> "opGenMatrix", size |-> 68, name |-> "general matrix"] @@
    95 :> [fn |-> "opText", size |-> 320, name |-> "text"] @@
    96 :> [fn |-> "opSwitch", size |-> None, name |-> "switch"] @@
    97 :> [fn |-> "opLineStylePalette", size |-> 12, name |-> "line style palette"] @@
    98 :> [fn |-> "opClipRegion", size |-> 280, name |-> "clip region"] @@
    100 :> [fn |-> "opExtension", size |-> None, name |-> "extension"] @@
    101 :> [fn |-> "opLightSrc", size |-> 64, name |-> "light source"] @@
    102 :> [fn |-> "opLightSrcPalette", size |-> 240, name |-> "light source palette"] @@
    103 :> [fn |-> "opReserved", size |-> None, name |-> "reserved"] @@
    104 :> [fn |-> "opReserved", size |-> None, name |-> "reserved"] @@
    105 :> [fn |-> "opBoundSphere", size |-> 16, name |-> "bounding sphere"] @@
    106 :> [fn |-> "opBoundCylinder", size |-> 24, name |-> "bounding cylinder"] @@
    107 :> [fn |-> "opBoundConvexHull", size |-> None, name |-> "bounding convex hull"] @@
    108 :> [fn |-> "opBoundVolCentre", size |-> 32, name |-> "bounding volume centre"] @@
    109 :> [fn |-> "opBoundVolOrientation", size |-> 32, name |-> "bounding volume orientation"] @@
    110 :> [fn |-> "opReserved", size |-> None, name |-> "reserved"] @@
    111 :> [fn |-> "opLightPt", size |-> 156, name |-> "light point"] @@
    112 :> [fn |-> "opTextureMapPalette", size |-> None, name |-> "texture mapping palette"] @@
    113 :> [fn |-> "opMatPalette", size |-> 84, name |-> "material palette"] @@
    114 :> [fn |-> "opNameTable", size |-> None, name |-> "name table"] @@
    115 :> [fn |-> "opCAT", size |-> 80, name |-> "continuously adaptive terrain (CAT)"] @@
    116 :> [fn |-> "opCATData", size |-> None, name |-> "CAT data"] @@
    117 :> [fn |-> "opReserved", size |-> None, name |-> "reserved"] @@
    118 :> [fn |-> "opReserved", size |-> None, name |-> "reserved"] @@
    119 :> [fn |-> "opBoundHist", size |-> None, name |-> "bounding histogram"] @@
    120 :> [fn |-> "opReserved", size |-> None, name |-> "reserved"] @@
    121 :> [fn |-> "opReserved", size |-> None, name |-> "reserved"] @@
    122 :> [fn |-> "opPushAttr", size |-> 8, name |-> "push attribute"] @@
    123 :> [fn |-> "opPopAttr", size |-> 4, name |-> "pop attribute"] @@
    124 :> [fn |-> "opReserved", size |-> None, name |-> "reserved"] @@
    125 :> [fn |-> "opReserved", size |-> None, name |-> "reserved"] @@
    126 :> [fn |-> "opCurve", size |-> None, name |-> "curve"] @@
    127 :> [fn |-> "opRoadConstruc", size |-> 168, name |-> "road construction"] @@
    128 :> [fn |-> "opLightPtAppearPalette", size |-> 412, name |-> "light point appearance palette"] @@
    129 :> [fn |-> "opLightPtAnimatPalette", size |-> None, name |-> "light point animation palette"] @@
    130 :> [fn |-> "opIdxLightPt", size |-> 28, name |-> "indexed light point"] @@
    131 :> [fn |-> "opLightPtSys", size |-> 24, name |-> "light point system"] @@
    132 :> [fn |-> "opIdxStr", size |-> None, name |-> "indexed string"] @@
    133 :> [fn |-> "opShaderPalette", size |-> None, name |-> "shader palette"] @@
    134 :> [fn |-> "opReserved", size |-> None, name |-> "reserved"] @@
    135 :> [fn |-> "opExtMatHdr", size |-> 28, name |-> "extended material header"] @@
    136 :> [fn |-> "opExtMatAmb", size |-> 48, name |-> "extended material ambient"] @@
    137 :> [fn |-> "opExtMatDif", size |-> 48, name |-> "extended material diffuse"] @@
    138 :> [fn |-> "opExtMatSpc", size |-> 48, name |-> "extended material specular"] @@
    139 :> [fn |-> "opExtMatEms", size |-> 48, name |-> "extended material emissive"] @@
    140 :> [fn |-> "opExtMatAlp", size |-> 44, name |-> "extended material alpha"] @@
    141 :> [fn |-> "opExtMatLightMap", size |-> 16, name |-> "extended material light map"] @@
    142 :> [fn |-> "opExtMatNormMap", size |-> 12, name |-> "extended material normal map"] @@
    143 :> [fn |-> "opExtMatBumpMap", size |-> 20, name |-> "extended material bump map"] @@
    144 :> [fn |-> "opReserved", size |-> None, name |-> "reserved"] @@
    145 :> [fn |-> "opExtMatShadowMap", size |-> 16, name |-> "extended material shadow map"] @@
    146 :> [fn |-> "opReserved", size |-> None, name |-> "reserved"] @@
    147 :> [fn |-> "opExtMatReflMap", size |-> 32, name |-> "extended material reflection map"] @@
    148 :> [fn |-> "opExtGUIDPalette", size |-> 48, name |-> "extension GUID palette"] @@
    149 :> [fn |-> "opExtFieldBool", size |-> 12, name |-> "extension field boolean"] @@
    150 :> [fn |-> "opExtFieldInt", size |-> 12, name |-> "extension field integer"] @@
    151 :> [fn |-> "opExtFieldFloat", size |-> 12, name |-> "extension field float"] @@
    152 :> [fn |-> "opExtFieldDouble", size |-> 16, name |-> "extension field double"] @@
    153 :> [fn |-> "opExtFieldString", size |-> None, name |-> "extension field string"] @@
    154 :> [fn |-> "opExtFieldXMLString", size |-> None, name |-> "extension field XML string record"]

ObsoleteOpCodes == {3, 6, 7, 8, 9, 12, 13, 16, 17, 40, 41, 42, 43, 44, 45, 46, 47, 48, 51, 65, 66, 77}

OpenFlightFormats == {11, 12, 14, 1420, 1510, 1540, 1550, 1560, 1570, 1580, 1600, 1610, 1620, 1630, 1640}

(***************************************************************************)
(* A running call is a machine m = [self, exc, rc]: the object, the        *)
(* exception in flight (NoErr when none) and what the last _readChunk of   *)
(* the call saw.  Every step below is skipped once an exception is in      *)
(* flight.                                                                 *)
(***************************************************************************)
\* self._Chunk: None, or the bytes held.
NoChunk == [isNone |-> TRUE, data |-> <<>>]
ChunkOf(data) == [isNone |-> FALSE, data |-> data]

\* _readChunk's locals: the records it consumed (offset and declared
\* length of each) and the buffer it built; done once it has returned.
NoReadChunk == [done |-> FALSE, parts |-> <<>>, chunk |-> <<>>]


(***************************************************************************)
(* File names are strings of bytes: 46 is '.', 47 is '/' (os.sep) and 92   *)
(* is the backslash.                                                       *)
(***************************************************************************)
\* old in s
in(old, s) == \E i \in 1..(Len(s) - Len(old) + 1) : SubSeq(s, i, i + Len(old) - 1) = old

\* s.replace(old, new)
RECURSIVE replace(_, _, _)
replace(s, old, new) ==
    IF Len(s) < Len(old) THEN s
    ELSE IF SubSeq(s, 1, Len(old)) = old
         THEN new \o replace(SubSeq(s, Len(old) + 1, Len(s)), old, new)
    ELSE <<s[1]>> \o replace(Tail(s), old, new)

\* s.count('.')
dots(s) == Cardinality({i \in 1..Len(s) : s[i] = 46})

\* os.path.dirname(p)
dirname(p) ==
    LET seps == {i \in 1..Len(p) : p[i] = 47}
        i == CHOOSE k \in seps : \A j \in seps : j <= k
        head == SubSeq(p, 1, i)
        kept == {k \in 1..i : p[k] # 47}
    IN  IF seps = {} THEN <<>>
        ELSE IF kept = {} THEN head
        ELSE SubSeq(p, 1, CHOOSE k \in kept : \A j \in kept : j <= k)

\* The file a path names: the system reads a run of separators as one and
\* skips the components that are a single dot.
RECURSIVE resolve(_)
resolve(p) ==
    CASE in(<<47, 47>>, p) -> resolve(replace(p, <<47, 47>>, <<47>>))
      [] in(<<47, 46, 47>>, p) -> resolve(replace(p, <<47, 46, 47>>, <<47>>))
      [] Len(p) > 2 /\ SubSeq(p, 1, 2) = <<46, 47>> -> resolve(SubSeq(p, 3, Len(p)))
      [] OTHER -> p

\* os.path.exists(fileName)
Exists(fileName) == resolve(fileName) \in DOMAIN fs

\* open(self.fileName, 'rb')
File(d) == fs[resolve(d.fileName)]

\* file is what the handle self.f reads.  External is Records['External']
\* of the object without parent, the one dictionary every object of a parse
\* writes its external files to; depth counts the ReadFile calls the call
\* is nested in, and loaded lists the files whose loop a ReadFile called by
\* _opExtRef has entered, in the order of the calls.
Machine(d) ==
    [self |-> d, file |-> File(d), exc |-> NoErr, rc |-> NoReadChunk, External |-> d.External,
     depth |-> 0, loaded |-> <<>>]

Raise(m, err) == IF m.exc # NoErr THEN m ELSE [m EXCEPT !.exc = err]

\* Can n more bytes be read at the handle's position?
Has(m, n) == m.self.f + n <= FileSize(m.file)

\* _readShort, _readUShort, _readInt, ... _readString(n): self.f.read(n)
\* then struct.unpack, which raises when fewer than n bytes came back.
read(m, n) ==
    IF m.exc # NoErr THEN m
    ELSE IF Has(m, n) THEN [m EXCEPT !.self.f = @ + n]
    ELSE [m EXCEPT !.self.f = IF @ > FileSize(m.file) THEN @ ELSE FileSize(m.file),
                   !.exc = ErrStruct]

\* The value the next unsigned / signed n-byte read returns (0 when it raises).
peekU(m, n) == IF m.exc = NoErr /\ Has(m, n) THEN Unsigned(m.file, m.self.f, n) ELSE 0
peekS(m, n) == IF m.exc = NoErr /\ Has(m, n) THEN Signed(m.file, m.self.f, n) ELSE 0

\* _skip(noBytes): self.f.seek(noBytes, os.SEEK_CUR); seeking beyond the end
\* of the file is allowed, seeking before its start is an IOError.
skip(m, noBytes) ==
    IF m.exc # NoErr THEN m
    ELSE IF m.self.f + noBytes < 0 THEN [m EXCEPT !.exc = ErrSeek]
    ELSE [m EXCEPT !.self.f = @ + noBytes]

\* _readString(size): a size of zero reads nothing; a negative size reads to
\* the end of the file, and no format unpacks what came back.
readString(m, size) ==
    IF m.exc # NoErr \/ size = 0 THEN m
    ELSE IF size < 0
         THEN Raise([m EXCEPT !.self.f = IF FileSize(m.file) > @ THEN FileSize(m.file) ELSE @],
                    ErrStruct)
    ELSE read(m, size)

\* A read of n bytes with fromChunk = True: the slice is cut off the front
\* of the chunk (a negative n leaves the last -n bytes), and unpacking it
\* raises when it is not n bytes long.
chunkRead(m, n) ==
    IF m.exc # NoErr THEN m
    ELSE IF m.self.Chunk.isNone THEN Raise(m, ErrName)
    ELSE LET data == m.self.Chunk.data
             cut == CASE n > Len(data) -> Len(data)
                      [] n < 0 /\ Len(data) + n > 0 -> Len(data) + n
                      [] n < 0 -> 0
                      [] OTHER -> n
             rest == [m EXCEPT !.self.Chunk = ChunkOf(SubSeq(data, cut + 1, Len(data)))]
         IN  IF cut = n THEN rest ELSE Raise(rest, ErrStruct)

\* The unsigned / signed value the next n-byte read from the chunk returns
\* (0 when it raises); a 4-byte value of 2^31 or more stands as 2^31 - 1.
chunkU(m, n) ==
    LET data == m.self.Chunk.data
    IN  CASE m.exc # NoErr \/ m.self.Chunk.isNone \/ Len(data) < n -> 0
          [] n = 1 -> data[1]
          [] n = 2 -> data[1] * 256 + data[2]
          [] data[1] >= 128 -> 2147483647
          [] OTHER -> ((data[1] * 256 + data[2]) * 256 + data[3]) * 256 + data[4]

chunkS(m, n) ==
    LET data == m.self.Chunk.data
    IN  CASE m.exc # NoErr \/ m.self.Chunk.isNone \/ Len(data) < n -> 0
          [] data[1] < 128 -> chunkU(m, n)
          [] n = 1 -> data[1] - 256
          [] n = 2 -> (data[1] - 256) * 256 + data[2]
          [] OTHER -> (data[1] - 256) * 16777216 + (data[2] * 256 + data[3]) * 256 + data[4]

\* The fields a decoder reads in order: R(n) reads n bytes, S(n) skips n,
\* Str(n) reads a string of n bytes, U(n, ok) / I(n, ok) reads an unsigned /
\* signed n-byte value and raises unless it is in ok, X(err) is a statement
\* that always raises err; V(off, ok) raises unless the integer read at
\* offset off of the file is in ok; C(it) is the same with fromChunk = True.
R(n) == [k |-> "read", n |-> n, ok |-> {}, err |-> NoErr, fromChunk |-> FALSE]
S(n) == [k |-> "skip", n |-> n, ok |-> {}, err |-> NoErr, fromChunk |-> FALSE]
Str(n) == [k |-> "string", n |-> n, ok |-> {}, err |-> NoErr, fromChunk |-> FALSE]
U(n, ok) == [k |-> "unsigned", n |-> n, ok |-> ok, err |-> ErrField, fromChunk |-> FALSE]
I(n, ok) == [k |-> "signed", n |-> n, ok |-> ok, err |-> ErrField, fromChunk |-> FALSE]
X(err) == [k |-> "raise", n |-> 0, ok |-> {}, err |-> err, fromChunk |-> FALSE]
V(off, ok) == [k |-> "check", n |-> off, ok |-> ok, err |-> ErrField, fromChunk |-> FALSE]
C(it) == [it EXCEPT !.fromChunk = TRUE]

field(m, it) ==
    LET item(got, value) ==
            CASE m.exc # NoErr -> m
              [] it.k = "read" -> got
              [] it.k = "skip" /\ it.fromChunk ->
                     [m EXCEPT !.self.Chunk = ChunkOf(SubSeq(@.data, it.n + 1, Len(@.data)))]
              [] it.k = "skip" -> skip(m, it.n)
              [] it.k = "string" -> got
              [] it.k \in {"unsigned", "signed"} -> IF value \in it.ok THEN got ELSE Raise(got, it.err)
              [] it.k = "check" -> IF value \in it.ok THEN m ELSE Raise(m, it.err)
              [] OTHER -> Raise(m, it.err)
    IN  item(CASE it.fromChunk -> chunkRead(m, it.n)
               [] it.k = "string" -> readString(m, it.n)
               [] OTHER -> read(m, it.n),
             CASE it.fromChunk /\ it.k = "signed" -> chunkS(m, it.n)
               [] it.fromChunk -> chunkU(m, it.n)
               [] it.k = "check" -> Signed(m.file, it.n, 4)
               [] it.k = "signed" -> peekS(m, it.n)
               [] OTHER -> peekU(m, it.n))

RECURSIVE fieldsFrom(_, _, _)
fieldsFrom(m, lay, i) ==
    IF i > Len(lay) \/ m.exc # NoErr THEN m ELSE fieldsFrom(field(m, lay[i]), lay, i + 1)

fields(m, lay) == fieldsFrom(m, lay, 1)

\* for idx in range(n): the fields of lay.  Every such loop of the source
\* reads at least one field of a fixed size, so that it ends with the data.
RECURSIVE times(_, _, _)
times(m, n, lay) ==
    IF n <= 0 \/ m.exc # NoErr \/ lay = <<>> THEN m ELSE times(fields(m, lay), n - 1, lay)

(***************************************************************************)
(* __init__: the fields of a new object.  Lists live in a heap so that two *)
(* places can hold the same list: heap[a] is the list at address a, and a  *)
(* node is a record [Datatype, at, val] whose `at` is the address of the   *)
(* list when the node is a list (Datatype "list") and 0 otherwise.         *)
(* Records["Tree"] is the list at TreeAt.                                  *)
(***************************************************************************)
TreeAt == 1

NewOpenFlight(fileName, parent, skip_missing_textures) ==
    [fileName |-> fileName, f |-> None, FileFormat |-> None, LastPlace |-> None,
     OpCodes |-> <<>>, PreviousOpCode |-> 0,
     heap |-> << <<>> >>, Instances |-> <<>>, External |-> <<>>, Vertices |-> <<>>,
     VertexList |-> <<>>, VertexUV |-> <<>>, Textures |-> <<>>,
     RecordType |-> "Tree", TreeStack |-> <<>>, InstanceStack |-> <<>>, Chunk |-> NoChunk,
     parent |-> parent, VertexCounter |-> 0, TexturePatternIdx |-> None,
     TexturePatterns |-> <<>>, SkipMissingTextures |-> skip_missing_textures,
     Scale |-> <<>>, Translate |-> <<>>, CurrentScale |-> <<1, 1, 1>>,
     CurrentTranslate |-> <<0, 0, 0>>, e |-> NoErr]

\* self._OpCodes[op]: the registry as patched by _check_header.
OpCodes(d) == d.OpCodes @@ OpCodes0

(***************************************************************************)
(* Validation.                                                             *)
(***************************************************************************)
check_filesize(d) == FileSize(File(d)) % 4 = 0

\* The header fields up to the format revision, the fields after it that
\* every revision has, and those of revisions 15.8 and later.
HeaderStart == <<I(2, {1}), R(2), R(8)>>

HeaderCommon ==
    <<S(4), R(32), R(2), R(2), R(2), R(2), U(2, {1}), U(1, {0, 1, 4, 5, 8}), R(1), R(4), S(24),
      I(4, 0..6), S(28), R(2), U(2, {1}), R(4), R(8), R(8), R(8), R(8), R(2), R(2), S(8),
      R(2), R(2), R(2), R(2), S(4), R(8), R(8), R(8), R(8), R(8), R(8), R(8), R(8),
      R(2), R(2), R(2), R(2), S(8), I(4, {0, 1, 2, 3, 4, -1}), R(2), R(2)>>

HeaderFrom1580 == <<R(2), S(6), R(8), R(8), R(2), R(2), S(4), R(8), R(8)>>

newSizes ==
    2 :> [fn |-> "opGroup", size |-> 32, name |-> "group"] @@
    69 :> [fn |-> "opVertexColNorm", size |-> 52, name |-> "vertex with colour and normal"] @@
    70 :> [fn |-> "opVertexColNormUV", size |-> 60, name |-> "vertex with colour, normal and UV"] @@
    79 :> [fn |-> "opScale", size |-> 44, name |-> "scale"]

\* _check_header returns True or raises; the machine it leaves behind.
check_header(m) ==
    LET known(revision, FileFormat) ==
            IF revision.exc # NoErr THEN revision
            ELSE Raise([revision EXCEPT !.self.FileFormat = FileFormat],
                       IF FileFormat \in OpenFlightFormats THEN NoErr ELSE ErrField)
        format(start) == known(read(start, 4), peekS(start, 4))
        sized(common) ==
            IF common.exc # NoErr THEN common
            ELSE IF common.self.FileFormat >= 1580 THEN fields(common, HeaderFrom1580)
            ELSE IF common.self.FileFormat >= 1550 THEN [common EXCEPT !.self.OpCodes = newSizes @@ @]
            ELSE common
    IN  sized(fields(format(fields([m EXCEPT !.self.f = 0], HeaderStart)), HeaderCommon))

\* An isOpenFlight that leaves the file open.
isOpenFlightBodyOpen(d) ==
    LET told(hdr) == IF hdr.exc = NoErr THEN [hdr.self EXCEPT !.LastPlace = hdr.self.f] ELSE hdr.self
        checked(hdr) == [self |-> told(hdr), ret |-> check_filesize(d) /\ hdr.exc = NoErr]
    IN  checked(check_header(Machine(d)))

\* isOpenFlight past its file-exists test: [self, ret].  The checks run in
\* order; an exception leaves the remaining entries of checkList False and
\* _LastPlace as it was; the handle is closed on every path.
isOpenFlightBody(d) ==
    LET told(hdr) == IF hdr.exc = NoErr THEN [hdr.self EXCEPT !.LastPlace = hdr.self.f] ELSE hdr.self
        checked(hdr) ==
            [self |-> [told(hdr) EXCEPT !.f = None], ret |-> check_filesize(d) /\ hdr.exc = NoErr]
    IN  checked(check_header(Machine(d)))

(***************************************************************************)
(* The record tree.                                                        *)
(***************************************************************************)
Node(Datatype, val) == [Datatype |-> Datatype, at |-> 0, val |-> val]
ListNode(at) == [Datatype |-> "list", at |-> at, val |-> 0]
InstancesDict == [Datatype |-> "Instances", at |-> 0, val |-> 0]
Missing == [Datatype |-> "raised", at |-> 0, val |-> 0]

\* node[idx], or Missing when it raises (KeyError, IndexError).
Item(d, node, idx) ==
    CASE node.Datatype = "Instances" ->
           IF idx \in DOMAIN d.Instances THEN ListNode(d.Instances[idx]) ELSE Missing
      [] node.Datatype = "list" ->
           IF idx < Len(d.heap[node.at]) THEN d.heap[node.at][idx + 1] ELSE Missing
      [] OTHER -> Missing

\* node = start; for idx in stack: node = node[idx]
RECURSIVE Descend(_, _, _, _)
Descend(d, node, stack, i) ==
    IF i > Len(stack) \/ node = Missing THEN node
    ELSE Descend(d, Item(d, node, stack[i]), stack, i + 1)

\* The node the current record type and its stack address.
Current(d) ==
    IF d.RecordType = "Tree" THEN Descend(d, ListNode(TreeAt), d.TreeStack, 1)
    ELSE Descend(d, InstancesDict, d.InstanceStack, 1)

\* len(node) of the addressed node.
Length(d, node) ==
    IF node.Datatype = "list" THEN Len(d.heap[node.at]) ELSE Cardinality(DOMAIN d.Instances)

\* _addObject(newObject): append to the addressed list; anything else that
\* is addressed has no append, and a stack that addresses nothing raises.
addObject(m, newObject) ==
    LET append(node) ==
            CASE node.Datatype = "list" -> [m EXCEPT !.self.heap[node.at] = Append(@, newObject)]
              [] node = Missing -> Raise(m, ErrNav)
              [] OTHER -> Raise(m, ErrAttr)
    IN  IF m.exc # NoErr THEN m ELSE append(Current(m.self))

\* A push that takes the index after the new list is appended.
opPushLate(m) ==
    IF m.exc # NoErr THEN m
    ELSE LET d == m.self
             node == Current(d)
             pushed == IF d.RecordType = "Tree"
                       THEN [m EXCEPT !.self.TreeStack = Append(@, Length(d, node) + 1)]
                       ELSE [m EXCEPT !.self.InstanceStack = Append(@, Length(d, node) + 1)]
             new == Len(d.heap) + 1
         IN  CASE node.Datatype = "list" ->
                    [pushed EXCEPT !.self.heap = Append([@ EXCEPT ![node.at] = Append(@, ListNode(new))], <<>>)]
               [] node.Datatype = "Instances" -> Raise(pushed, ErrAttr)
               [] OTHER -> Raise(m, ErrNav)

\* A push that addresses the first element, whatever the length of the list.
opPushFirst(m) ==
    IF m.exc # NoErr THEN m
    ELSE LET d == m.self
             node == Current(d)
             pushed == IF d.RecordType = "Tree"
                       THEN [m EXCEPT !.self.TreeStack = Append(@, 0)]
                       ELSE [m EXCEPT !.self.InstanceStack = Append(@, 0)]
             new == Len(d.heap) + 1
         IN  CASE node.Datatype = "list" ->
                    [pushed EXCEPT !.self.heap = Append([@ EXCEPT ![node.at] = Append(@, ListNode(new))], <<>>)]
               [] node.Datatype = "Instances" -> Raise(pushed, ErrAttr)
               [] OTHER -> Raise(m, ErrNav)

\* _opPush: the index is pushed on the stack before the new list is appended.
opPush(m) ==
    IF m.exc # NoErr THEN m
    ELSE LET d == m.self
             node == Current(d)
             pushed == IF d.RecordType = "Tree"
                       THEN [m EXCEPT !.self.TreeStack = Append(@, Length(d, node))]
                       ELSE [m EXCEPT !.self.InstanceStack = Append(@, Length(d, node))]
             new == Len(d.heap) + 1
         IN  CASE node.Datatype = "list" ->
                    [pushed EXCEPT !.self.heap = Append([@ EXCEPT ![node.at] = Append(@, ListNode(new))], <<>>)]
               [] node.Datatype = "Instances" -> Raise(pushed, ErrAttr)
               [] OTHER -> Raise(m, ErrNav)

Front(s) == SubSeq(s, 1, Len(s) - 1)

\* A pop that does nothing when the tree stack is empty.
opPopSilent(m) ==
    IF m.exc # NoErr THEN m
    ELSE IF m.self.RecordType = "Tree"
    THEN [m EXCEPT !.self.TreeStack = Front(@)]
    ELSE IF Len(m.self.InstanceStack) = 0 THEN Raise(m, ErrPopEmpty)
         ELSE IF Len(m.self.InstanceStack) = 2
              THEN [m EXCEPT !.self.RecordType = "Tree", !.self.InstanceStack = <<>>]
              ELSE [m EXCEPT !.self.InstanceStack = Front(@)]

\* _opPop
opPop(m) ==
    IF m.exc # NoErr THEN m
    ELSE IF m.self.RecordType = "Tree"
    THEN IF Len(m.self.TreeStack) = 0 THEN Raise(m, ErrPop)
         ELSE [m EXCEPT !.self.TreeStack = Front(@)]
    ELSE IF Len(m.self.InstanceStack) = 0 THEN Raise(m, ErrPopEmpty)
         ELSE IF Len(m.self.InstanceStack) = 2
              THEN [m EXCEPT !.self.RecordType = "Tree", !.self.InstanceStack = <<>>]
              ELSE [m EXCEPT !.self.InstanceStack = Front(@)]

opPushSubface(m) == addObject(opPush(m), Node("PushSubface", 0))

opPopSubface(m) == opPop(addObject(m, Node("PopSubface", 0)))

opPushExtension(m) == addObject(opPush(fields(m, <<S(18), R(2)>>)), Node("PushExtension", 0))

opPopExtension(m) == opPop(addObject(fields(m, <<S(18), R(2)>>), Node("PopExtension", 0)))

\* An instance reference that adds a copy of the list of the instance.
opInstRefCopy(m) ==
    LET instance == peekU(m, 4)
        got == read(m, 4)
        copy == [got EXCEPT !.self.heap = Append(@, @[got.self.Instances[instance]])]
    IN  IF got.exc # NoErr THEN got
        ELSE IF instance \notin DOMAIN got.self.Instances THEN Raise(got, ErrInstRef)
        ELSE addObject(copy, ListNode(Len(copy.self.heap)))

\* _opInstRef: the list of the instance itself is added, not a copy.
opInstRef(m) ==
    LET instance == peekU(m, 4)
        got == read(m, 4)
    IN  IF got.exc # NoErr THEN got
        ELSE IF instance \notin DOMAIN got.self.Instances THEN Raise(got, ErrInstRef)
        ELSE addObject(got, ListNode(got.self.Instances[instance]))

\* An instance definition that takes a number already declared.
opInstDefAgain(m) ==
    LET typed == IF m.exc # NoErr THEN m ELSE [m EXCEPT !.self.RecordType = "Instances"]
        instance == peekU(typed, 4)
        got == read(typed, 4)
        new == Len(got.self.heap) + 1
    IN  IF got.exc # NoErr THEN got
        ELSE [got EXCEPT !.self.heap = Append(@, <<>>),
                         !.self.Instances = (instance :> new) @@ @,
                         !.self.InstanceStack = Append(@, instance)]

\* _opInstDef: the record type is switched before anything is read.
opInstDef(m) ==
    LET typed == IF m.exc # NoErr THEN m ELSE [m EXCEPT !.self.RecordType = "Instances"]
        instance == peekU(typed, 4)
        got == read(typed, 4)
        new == Len(got.self.heap) + 1
    IN  IF got.exc # NoErr THEN got
        ELSE IF instance \in DOMAIN got.self.Instances THEN Raise(got, ErrInstDef)
        ELSE [got EXCEPT !.self.heap = Append(@, <<>>),
                         !.self.Instances = (instance :> new) @@ @,
                         !.self.InstanceStack = Append(@, instance)]

(***************************************************************************)
(* Records that continuation records extend.                               *)
(***************************************************************************)
\* self.f.read(n) without unpacking: the bytes up to the end of the file at
\* most, all of them when n is negative.
Available(m) == IF FileSize(m.file) > m.self.f THEN FileSize(m.file) - m.self.f ELSE 0

Count(m, n) == IF n < 0 \/ n > Available(m) THEN Available(m) ELSE n

Bytes(m, n) == [k \in 1..Count(m, n) |-> ByteAt(m.file, m.self.f + k - 1)]

\* The loop of _readChunk, entered with the next opcode about to be read.
RECURSIVE continuations(_)
continuations(m) ==
    LET body(len, RecordLength) ==
            IF len.exc # NoErr THEN len
            ELSE continuations([len EXCEPT !.self.f = @ + Count(len, RecordLength - 4),
                                           !.rc.chunk = @ \o Bytes(len, RecordLength - 4),
                                           !.rc.parts = Append(@, [at |-> m.self.f,
                                                                   len |-> RecordLength])])
        record(op, opCode) ==
            IF op.exc # NoErr THEN op
            ELSE IF opCode # 23 THEN op
            ELSE body(read(op, 2), peekU(op, 2))
    IN  record(read(m, 2), peekU(m, 2))

\* A reassembler that hands on the body of the first record only.
readChunkPrimary(m) ==
    LET kept(back, chunk) ==
            IF back.exc # NoErr THEN back
            ELSE [back EXCEPT !.self.Chunk = ChunkOf(chunk), !.rc.chunk = chunk, !.rc.done = TRUE]
        rest(body) == kept(skip(continuations(body), -2), body.rc.chunk)
        first(len, RecordLength) ==
            IF len.exc # NoErr THEN len
            ELSE rest([len EXCEPT !.self.f = @ + Count(len, RecordLength - 4),
                                  !.rc = [done |-> FALSE, chunk |-> Bytes(len, RecordLength - 4),
                                          parts |-> <<[at |-> m.self.f - 2,
                                                       len |-> RecordLength]>>]])
    IN  IF m.exc # NoErr THEN m ELSE first(read(m, 2), peekU(m, 2))

\* _readChunk
readChunk(m) ==
    LET kept(back) ==
            IF back.exc # NoErr THEN back
            ELSE [back EXCEPT !.self.Chunk = ChunkOf(back.rc.chunk), !.rc.done = TRUE]
        first(len, RecordLength) ==
            IF len.exc # NoErr THEN len
            ELSE kept(skip(continuations(
                     [len EXCEPT !.self.f = @ + Count(len, RecordLength - 4),
                                 !.rc = [done |-> FALSE, chunk |-> Bytes(len, RecordLength - 4),
                                         parts |-> <<[at |-> m.self.f - 2,
                                                      len |-> RecordLength]>>]]), -2))
    IN  IF m.exc # NoErr THEN m ELSE first(read(m, 2), peekU(m, 2))

\* len(self._Chunk)
chunkLen(m) == Len(m.self.Chunk.data)

\* A continuation decoder that lets the record pass.
opContinuationSkipped(m) == m

\* _opContinuation
opContinuation(m) == Raise(m, ErrContinuation)

opComment(m) ==
    LET add(text) ==
            IF text.exc # NoErr THEN text
            ELSE addObject([text EXCEPT !.self.Chunk = NoChunk], Node("Comment", 0))
        whole(chunked) == add(chunkRead(chunked, chunkLen(chunked)))
    IN  whole(readChunk(m))

(***************************************************************************)
(* The decoders, in the order of the source.                               *)
(***************************************************************************)
\* n times the same field
Rep(n, it) == [i \in 1..n |-> it]

opReserved(m) == m

opHeader(m) == Raise(m, ErrHeader)

\* _opFace also remembers the texture pattern index for the next vertex list.
opFace(m) ==
    LET rest(indices, TexturePatternIdx) ==
            addObject(fields(IF indices.exc # NoErr THEN indices
                             ELSE [indices EXCEPT !.self.TexturePatternIdx = TexturePatternIdx],
                             <<R(2), R(2), R(4), R(2), R(1), R(1), R(4), U(1, {0, 1, 2, 3}), S(7),
                               R(4), R(4), R(2), S(2), R(4), R(4), S(2), R(2)>>),
                      Node("Face", TexturePatternIdx))
        pattern(start) == rest(fields(start, <<R(2), R(2)>>), peekU(start, 2))
    IN  pattern(fields(m, <<R(8), R(4), R(2), U(1, {0, 1, 2, 3, 4, 8, 9, 10}), R(1), R(2), R(2), S(1),
                            U(1, {0, 1, 2, 4}), R(2)>>))

opMatrix(m) == addObject(fields(m, Rep(16, R(4))), Node("ndarray", 0))

\* _opUVList reads a record length of its own and as many vertices as that
\* length and the layers of the attribute mask give.
opUVList(m) ==
    LET RecordLength == peekU(m, 2)
        len == read(m, 2)
        low == peekU(skip(len, 3), 1)
        mask == read(len, 4)
        Layers == Cardinality({n \in 0..6 : (low \div (2 ^ n)) % 2 = 1})
        vertices == (RecordLength - 8) \div (8 * Layers)
    IN  IF mask.exc # NoErr THEN mask
        ELSE IF Layers = 0 THEN Raise(mask, ErrZeroDiv)
        ELSE addObject(fields(mask, <<R(IF vertices > 0 THEN vertices * Layers * 16 ELSE 0)>>),
                       Node("UVList", 0))

opVertexPalette(m) ==
    LET added == addObject(fields(m, <<R(4)>>), Node("VertexPalette", 0))
    IN  IF added.exc # NoErr THEN added ELSE [added EXCEPT !.self.VertexCounter = @ + 8]

\* A vertex counted as 40 bytes whatever its record.
vertexOfColour(m, Datatype, uv, size) ==
    LET newObject == Node(Datatype, m.self.VertexCounter)
        added == addObject(m, newObject)
    IN  IF added.exc # NoErr THEN added
        ELSE [added EXCEPT !.self.Vertices = (m.self.VertexCounter :> newObject) @@ @,
                           !.self.VertexUV = Append(@, uv),
                           !.self.VertexCounter = @ + 40]

\* What the four vertex decoders do once the fields are read.
vertex(m, Datatype, uv, size) ==
    LET newObject == Node(Datatype, m.self.VertexCounter)
        added == addObject(m, newObject)
    IN  IF added.exc # NoErr THEN added
        ELSE [added EXCEPT !.self.Vertices = (m.self.VertexCounter :> newObject) @@ @,
                           !.self.VertexUV = Append(@, uv),
                           !.self.VertexCounter = @ + size]

opVertexColour(m) ==
    vertex(fields(m, <<R(2), R(2)>> \o Rep(3, R(8)) \o <<R(4), R(4)>>), "VertexColour", "None", 40)

opVertexColNorm(m) ==
    vertex(fields(m, <<R(2), R(2)>> \o Rep(3, R(8)) \o Rep(3, R(4)) \o <<R(4), R(4)>>
                     \o (IF m.self.FileFormat >= 1580 THEN <<S(4)>> ELSE <<>>)),
           "VertexColourWithNormal", "None", OpCodes(m.self)[69].size)

opVertexColNormUV(m) ==
    vertex(fields(m, <<R(2), R(2)>> \o Rep(3, R(8)) \o Rep(3, R(4)) \o <<R(4), R(4), R(4), R(4)>>
                     \o (IF m.self.FileFormat >= 1580 THEN <<S(4)>> ELSE <<>>)),
           "VertexColourWithNormalUV", "TextureCoordinate", OpCodes(m.self)[70].size)

opVertexColUV(m) ==
    vertex(fields(m, <<R(2), R(2)>> \o Rep(3, R(8)) \o <<R(4), R(4), R(4), R(4)>>),
           "VertexColourWithUV", "TextureCoordinate", 48)

\* self.read does not exist: the statement after the first field raises.
opLoD(m) == fields(m, <<R(8), X(ErrAttr)>>)

\* A float or a double is known by its leading byte.
number(m) == peekU(m, 1)

\* _opTranslate binds _CurrentTranslate to the Delta of the record.
opTranslate(m) ==
    LET from == fields(m, <<S(4)>> \o Rep(3, R(8)))
        Delta == <<number(from), number(read(from, 8)), number(read(from, 16))>>
        got == fields(from, Rep(3, R(8)))
    IN  IF got.exc # NoErr THEN got
        ELSE addObject([got EXCEPT !.self.CurrentTranslate = Delta], Node("Translate", 0))

\* _opScale writes each factor into _CurrentScale as soon as it is read.
RECURSIVE factors(_, _)
factors(m, colIdx) ==
    IF colIdx > 3 THEN m
    ELSE LET got == read(m, 4)
         IN  IF got.exc # NoErr THEN got
             ELSE factors([got EXCEPT !.self.CurrentScale[colIdx] = number(m)], colIdx + 1)

opScale(m) ==
    LET scaled == factors(fields(m, <<S(4)>> \o Rep(3, R(8))), 1)
    IN  addObject(fields(scaled, IF m.self.FileFormat >= 1580 THEN <<S(4)>> ELSE <<>>),
                  Node("Scale", 0))

\* Varnames is not defined: the first eyepoint is not read to its end.
opEyeTrackPalette(m) == fields(m, <<S(4)>> \o Rep(3, R(8)) \o <<X(ErrName)>>)

opRoadPath(m) ==
    addObject(fields(m, <<R(8), S(4), R(120), R(8), R(4), U(4, {1, 2}), S(480)>>),
              Node("RoadPath", 0))

\* fileName is not defined.
opGenMatrix(m) == Raise(m, ErrName)

opCAT(m) ==
    addObject(fields(m, <<R(2), S(4), R(4), I(4, {0, 1, 2}), R(1), S(2)>> \o Rep(6, R(2))
                     \o <<R(4), S(8), R(2), S(2), R(4), R(4), S(12), R(4), S(4)>>),
              Node("CAT", 0))

\* _opBoundHist skips to the end of the record its own length field gives.
opBoundHist(m) ==
    LET RecordLength == peekU(m, 2)
    IN  skip(read(m, 2), RecordLength - 4)

opPushAttr(m) == m

opPopAttr(m) == m

\* Four bytes are unpacked as an unsigned short.
opLightPtAppearPalette(m) ==
    fields(m, <<S(4), R(256), R(4), R(2), R(2), R(4), R(4), X(ErrStruct)>>)

opLongID(m) ==
    LET RecordLength == peekU(m, 2)
        len == read(m, 2)
    IN  IF len.exc # NoErr THEN len
        ELSE IF RecordLength < 4 THEN Raise([len EXCEPT !.self.f = @ + Count(len, -1)], ErrStruct)
        ELSE addObject(read(len, RecordLength - 4), Node("LongID", 0))


\* The decoders that read a fixed run of fields into a dictionary and add
\* it: the fields each reads, in order.
Fields(d, fn) ==
    CASE fn = "opGroup" ->
           <<R(8), R(2), S(2), R(4)>> \o Rep(3, R(2)) \o <<R(1), S(5)>> \o (IF d.FileFormat >= 1580 THEN Rep(3, R(4)) ELSE <<>>)
      [] fn = "opObject" ->
           <<R(8), R(4)>> \o Rep(5, R(2)) \o <<S(2)>>
      [] fn = "opDoF" ->
           <<R(8), S(4)>> \o Rep(45, R(8)) \o <<R(4), S(4)>>
      [] fn = "opVector" ->
           Rep(3, R(4))
      [] fn = "opBSP" ->
           <<R(8), S(4)>> \o Rep(4, R(8))
      [] fn = "opReplicate" ->
           <<R(2), S(2)>>
      [] fn = "opBoundingBox" ->
           <<S(4)>> \o Rep(6, R(8))
      [] fn = "opRotEdge" ->
           <<S(4)>> \o Rep(6, R(8)) \o <<R(4), S(4)>>
      [] fn = "opRotPoint" ->
           <<S(4)>> \o Rep(3, R(8)) \o Rep(4, R(4))
      [] fn = "opRotScPoint" ->
           <<S(4)>> \o Rep(9, R(8)) \o Rep(3, R(4)) \o <<S(4)>>
      [] fn = "opPut" ->
           <<S(4)>> \o Rep(18, R(8))
      [] fn = "opMesh" ->
           <<R(8), S(4), R(4), R(2), U(1, {0, 1, 2, 3, 4, 8, 9, 10}), R(1), R(2), R(2), S(1), U(1, {0, 1, 2, 4})>> \o Rep(5, R(2)) \o <<R(4), R(2), R(1), R(1), R(4), U(1, {0, 1, 2, 3}), S(7), R(4), R(4), R(2), S(2), R(4), R(4), S(2), R(2)>>
      [] fn = "opRoadSeg" ->
           <<R(8)>>
      [] fn = "opRoadZone" ->
           <<R(120), S(4)>> \o Rep(5, R(8)) \o <<R(4), R(4)>>
      [] fn = "opSound" ->
           <<R(8), S(4), R(4), S(4)>> \o Rep(3, R(8)) \o Rep(9, R(4)) \o <<S(4)>>
      [] fn = "opText" ->
           <<R(8), S(8), U(4, {0, 1, 2}), U(4, {0, 1, 2, 3}), U(4, {0, 1, 2}), R(8), R(4), S(20)>> \o Rep(12, R(4)) \o Rep(8, R(8)) \o <<R(120)>> \o Rep(5, R(4)) \o <<S(4)>>
      [] fn = "opLineStylePalette" ->
           <<R(2), R(2), R(4)>>
      [] fn = "opClipRegion" ->
           <<R(8), S(6)>> \o Rep(5, R(1)) \o <<S(1)>> \o Rep(32, R(8))
      [] fn = "opLightSrc" ->
           <<R(8), S(4), R(4), S(4), R(4), S(4)>> \o Rep(3, R(8)) \o <<R(4), R(4)>>
      [] fn = "opLightSrcPalette" ->
           <<R(4), S(8), R(20), S(4)>> \o Rep(12, R(4)) \o <<U(4, {0, 1, 2}), S(40)>> \o Rep(7, R(4)) \o <<U(4, {0, 1}), S(76)>>
      [] fn = "opBoundSphere" ->
           <<S(4), R(8)>>
      [] fn = "opBoundCylinder" ->
           <<S(4), R(8), R(8)>>
      [] fn = "opBoundVolCentre" ->
           <<S(4)>> \o Rep(3, R(8))
      [] fn = "opBoundVolOrientation" ->
           <<S(4)>> \o Rep(3, R(8))
      [] fn = "opLightPt" ->
           <<R(8), R(2), R(2), R(4), U(4, {0, 1, 2})>> \o Rep(4, R(4)) \o Rep(4, U(4, {0, 1})) \o Rep(8, R(4)) \o <<S(4), R(4), U(4, {0, 1, 2})>> \o Rep(14, R(4))
      [] fn = "opMatPalette" ->
           <<R(4), R(12)>> \o Rep(15, R(4)) \o <<S(4)>>
      [] fn = "opRoadConstruc" ->
           <<R(8), S(4), U(4, {0, 1, 2}), R(4)>> \o Rep(13, R(8)) \o <<U(4, {0, 1, 2}), R(4)>> \o Rep(4, R(8))
      [] fn = "opIdxLightPt" ->
           <<R(8)>> \o Rep(3, R(4)) \o <<S(4)>>
      [] fn = "opLightPtSys" ->
           <<R(8), R(4), U(4, {0, 1, 2}), R(4)>>
      [] fn = "opExtMatHdr" ->
           <<R(4), R(12), R(4), U(4, {0, 1, 2})>>
      [] fn = "opExtMatAmb" ->
           Rep(11, R(4))
      [] fn = "opExtMatDif" ->
           Rep(11, R(4))
      [] fn = "opExtMatSpc" ->
           Rep(12, R(4))
      [] fn = "opExtMatEms" ->
           Rep(11, R(4))
      [] fn = "opExtMatAlp" ->
           Rep(9, R(4)) \o <<U(4, {0, 1})>>
      [] fn = "opExtMatLightMap" ->
           Rep(3, R(4))
      [] fn = "opExtMatNormMap" ->
           <<R(4), R(4)>>
      [] fn = "opExtMatBumpMap" ->
           Rep(4, R(4))
      [] fn = "opExtMatShadowMap" ->
           Rep(3, R(4))
      [] fn = "opExtMatReflMap" ->
           Rep(6, R(4)) \o <<S(4)>>
      [] fn = "opExtGUIDPalette" ->
           Rep(11, R(4))
      [] fn = "opExtFieldBool" ->
           <<R(4), R(4)>>
      [] fn = "opExtFieldInt" ->
           <<R(4), R(4)>>
      [] fn = "opExtFieldFloat" ->
           <<R(4), R(4)>>
      [] fn = "opExtFieldDouble" ->
           <<R(4), R(8)>>

\* newObject['Datatype'] of each of them.
Datatype(fn) ==
    CASE fn = "opGroup" -> "Group"
      [] fn = "opObject" -> "Object"
      [] fn = "opDoF" -> "DegreeOfFreedom"
      [] fn = "opVector" -> "Vector"
      [] fn = "opBSP" -> "BinarySeparatingPlane"
      [] fn = "opReplicate" -> "Replicate"
      [] fn = "opBoundingBox" -> "BoundingBox"
      [] fn = "opRotEdge" -> "RotateAboutEdge"
      [] fn = "opRotPoint" -> "RotateAboutPoint"
      [] fn = "opRotScPoint" -> "RotateScaleToPoint"
      [] fn = "opPut" -> "Put"
      [] fn = "opMesh" -> "Mesh"
      [] fn = "opRoadSeg" -> "RoadSegment"
      [] fn = "opRoadZone" -> "RoadZone"
      [] fn = "opSound" -> "Sound"
      [] fn = "opText" -> "Text"
      [] fn = "opLineStylePalette" -> "LineStylePalette"
      [] fn = "opClipRegion" -> "ClipRegion"
      [] fn = "opLightSrc" -> "LightSource"
      [] fn = "opLightSrcPalette" -> "LightSourcePalette"
      [] fn = "opBoundSphere" -> "BoundingSphere"
      [] fn = "opBoundCylinder" -> "BoundingCylinder"
      [] fn = "opBoundVolCentre" -> "BoundingVolumeCentre"
      [] fn = "opBoundVolOrientation" -> "BoundingVolumeOrientation"
      [] fn = "opLightPt" -> "LightPoint"
      [] fn = "opMatPalette" -> "MaterialPalette"
      [] fn = "opRoadConstruc" -> "RoadConstruction"
      [] fn = "opIdxLightPt" -> "IndexedLightPoint"
      [] fn = "opLightPtSys" -> "LightPointSystem"
      [] fn = "opExtMatHdr" -> "ExtendedMaterialHeader"
      [] fn = "opExtMatAmb" -> "ExtendedMaterialAmbient"
      [] fn = "opExtMatDif" -> "ExtendedMaterialDiffuse"
      [] fn = "opExtMatSpc" -> "ExtendedMaterialSpecular"
      [] fn = "opExtMatEms" -> "ExtendedMaterialEmissive"
      [] fn = "opExtMatAlp" -> "ExtendedMaterialAlpha"
      [] fn = "opExtMatLightMap" -> "ExtendedMaterialLightMap"
      [] fn = "opExtMatNormMap" -> "ExtendedMaterialNormalMap"
      [] fn = "opExtMatBumpMap" -> "ExtendedMaterialBumpMap"
      [] fn = "opExtMatShadowMap" -> "ExtendedMaterialShadowMap"
      [] fn = "opExtMatReflMap" -> "ExtendedMaterialReflectionMap"
      [] fn = "opExtGUIDPalette" -> "ExtensionGUIDPalette"
      [] fn = "opExtFieldBool" -> "ExtensionFieldBoolean"
      [] fn = "opExtFieldInt" -> "ExtensionFieldInteger"
      [] fn = "opExtFieldFloat" -> "ExtensionFieldFloat"
      [] fn = "opExtFieldDouble" -> "ExtensionFieldDouble"

\* newObject = dict(); the reads; self._addObject(newObject)
opFixed(m, fn) == addObject(fields(m, Fields(m.self, fn)), Node(Datatype(fn), 0))

\* self._Chunk = None; self._addObject(newObject)
release(m, newObject) ==
    IF m.exc # NoErr THEN m ELSE addObject([m EXCEPT !.self.Chunk = NoChunk], newObject)

\* The 1024 colours are read one after the other, 4096 bytes in all: the
\* reads end where the file ends, as one read of them all does.
opColourPalette(m) ==
    LET RecordLength == peekU(m, 2)
        rows == fields(m, <<R(2), S(128), R(4096)>>)
        noNames == peekU(rows, 4)
        names == times(read(rows, 4), noNames, <<R(2), S(2), R(2), S(2), Str(RecordLength - 8)>>)
    IN  addObject(IF RecordLength > 4228 THEN names ELSE rows, Node("ColourPalette", 0))

opMultitexture(m) ==
    LET RecordLength == peekU(m, 2)
    IN  addObject(times(fields(m, <<R(2), R(4)>>), (RecordLength \div 8) - 1, Rep(4, R(2))),
                  Node("Multitexture", 0))

\* The attribute mask says what every vertex of the pool holds.
opLocVertexPool(m) ==
    LET chunked == readChunk(m)
        NumberOfVertices == chunkU(chunked, 4)
        count == fields(chunked, <<C(R(4))>>)
        low == IF chunkLen(count) >= 4
               THEN (count.self.Chunk.data[3] % 16) * 256 + count.self.Chunk.data[4] ELSE 0
        Flags == [idx \in 0..11 |-> (low \div (2 ^ idx)) % 2 = 1]
        mask == fields(count, <<C(R(4))>>)
        varNames == Cardinality({idx \in 4..11 : Flags[idx]})
        tempDict == (IF Flags[0] THEN Rep(3, C(R(8))) ELSE <<>>)
                    \o (IF Flags[1] \/ Flags[2] THEN Rep(4, C(R(1))) ELSE <<>>)
                    \o (IF Flags[3] THEN Rep(3, C(R(4))) ELSE <<>>)
                    \o Rep(2 * varNames, C(R(4)))
    IN  IF mask.exc # NoErr THEN mask
        ELSE IF Flags[1] /\ Flags[2] THEN Raise(mask, ErrField)
        ELSE release(times(mask, NumberOfVertices, tempDict), Node("LocalVertexPool", 0))

opMeshPrim(m) ==
    LET type == fields(readChunk(m), <<C(R(2))>>)
        indexSize == chunkU(type, 2)
        size == fields(type, <<C(U(2, {1, 2, 4}))>>)
        VertexCount == chunkU(size, 4)
    IN  release(times(fields(size, <<C(R(4))>>), VertexCount, <<C(R(indexSize))>>),
                Node("MeshPrimitive", 0))

opMorphVertex(m) ==
    LET chunked == readChunk(m)
    IN  release(times(chunked, chunkLen(chunked) \div 8, <<C(R(4)), C(R(4))>>),
                Node("MorphVertexList", 0))

\* A key table header with records indexes a string with a string; a key
\* data record reads its data and then assigns to newobject, no name.
opLinkPalette(m) ==
    LET RecordLength == peekU(m, 2)
        len == read(m, 2)
        subtype == peekS(len, 4)
        sub == read(len, 4)
        ActualNumber == peekS(read(sub, 4), 4)
        header == fields(sub, <<R(4), R(4), R(4), S(12)>>
                              \o (IF ActualNumber > 0 THEN <<R(4), R(4), R(4), X(ErrName)>> ELSE <<>>))
        DataLength == read(sub, 4)
        PackedData == IF DataLength.exc # NoErr THEN DataLength
                      ELSE Raise([DataLength EXCEPT !.self.f = @ + Count(DataLength, RecordLength - 12)],
                                 ErrName)
    IN  CASE sub.exc # NoErr -> sub
          [] subtype = 1 -> addObject(header, Node("LinkagePalette", 0))
          [] subtype = 2 -> PackedData
          [] OTHER -> addObject(sub, Node("LinkagePalette", 0))

opSoundPalette(m) ==
    LET RecordLength == peekU(m, 2)
        len == read(m, 2)
        Subtype == peekU(len, 4)
        sub == read(len, 4)
        ActualNumber == peekU(read(sub, 4), 4)
    IN  CASE sub.exc # NoErr -> sub
          [] Subtype = 1 -> addObject(times(fields(sub, <<R(4), R(4), S(12)>>), ActualNumber,
                                            <<R(4), S(4), R(4)>>),
                                      Node("SoundPaletteData", 0))
          [] Subtype = 2 -> addObject(fields(sub, <<R(4), Str(RecordLength - 12)>>),
                                      Node("SoundPaletteData", 0))
          [] OTHER -> Raise(sub, ErrField)

\* varNames is a list, and a string indexes it.
opSwitch(m) == fields(m, <<R(2), R(8), S(4), R(4), R(4), R(4), X(ErrName)>>)

opExtension(m) ==
    LET head == fields(readChunk(m), <<C(Str(8)), C(Str(8)), C(S(1)), C(R(1)), C(R(2))>>)
    IN  release(fields(head, <<C(Str(chunkLen(head)))>>), Node("Extension", 0))

\* One triangle of nine doubles is read for every eight bytes left.
opBoundConvexHull(m) ==
    LET NumberOfTriangles == fields(readChunk(m), <<C(R(4))>>)
        RecordLength == chunkLen(NumberOfTriangles)
    IN  release(times(NumberOfTriangles, RecordLength \div 8, Rep(9, C(R(8)))),
                Node("BoundingConvexHull", 0))

\* The radial projection uses varTypes, which that branch never binds.
opTextureMapPalette(m) ==
    LET head == fields(m, <<R(2), S(4), R(4), R(20)>>)
        TextureMappingType == peekU(head, 4)
        type == fields(head, <<U(4, {0, 1, 2, 4, 5, 6})>>)
        WarpedFlag == peekS(type, 4)
        matrix == fields(type, <<R(4)>> \o Rep(16, R(8)))
        mapping ==
            CASE TextureMappingType = 1 ->
                   <<I(4, 0..3), I(4, 1..3)>> \o Rep(6, R(8)) \o Rep(3, R(4)) \o <<S(4)>> \o Rep(18, R(8))
                   \o <<I(4, 1..3), I(4, {1, 2}), R(4), R(4)>>
              [] TextureMappingType = 2 ->
                   <<I(4, 0..4), I(4, 1..4)>> \o Rep(6, R(8)) \o Rep(3, R(4)) \o <<S(4)>> \o Rep(24, R(8))
                   \o <<I(4, 1..4), I(4, {1, 2}), R(4), S(4)>> \o Rep(16, R(8)) \o <<R(4), R(4)>>
              [] TextureMappingType = 4 -> <<R(4), S(4)>> \o Rep(3, R(8)) \o <<R(4), R(4)>>
              [] TextureMappingType = 5 -> <<U(4, {1, 2}), S(4), X(ErrName)>>
              [] OTHER -> <<>>
        warped == IF WarpedFlag = 1 THEN <<R(4), R(4), S(8)>> \o Rep(32, R(8)) ELSE <<>>
    IN  addObject(fields(fields(matrix, mapping), warped), Node("TextureMappingPalette", 0))

\* The entries of a name table: length, index and a string of length - 6.
RECURSIVE names(_, _)
names(m, n) ==
    IF n <= 0 \/ m.exc # NoErr THEN m
    ELSE LET entryLength == chunkS(m, 4)
             len == fields(m, <<C(R(4))>>)
         IN  IF len.exc # NoErr THEN len
             ELSE IF entryLength > 86 THEN Raise(len, ErrNameTable)
             ELSE names(fields(len, <<C(R(4)), C(Str(entryLength - 6))>>), n - 1)

\* The dictionary of a name table has no Datatype.
opNameTable(m) ==
    LET chunked == readChunk(m)
        NumberOfNames == chunkS(chunked, 4)
    IN  release(names(fields(chunked, <<C(R(4)), C(R(2))>>), NumberOfNames), Node("", 0))

\* The face records of CAT data: six integers and an ID of the length the
\* last one gives.
RECURSIVE faceRecords(_, _)
faceRecords(m, n) ==
    IF n <= 0 \/ m.exc # NoErr THEN m
    ELSE LET ints == fields(m, Rep(5, R(4)))
             IDLength == peekS(ints, 4)
         IN  faceRecords(fields(ints, <<R(4), Str(IDLength)>>), n - 1)

opCATData(m) ==
    LET len == read(m, 2)
        subtype == peekS(len, 4)
        sub == read(len, 4)
        ActualNumber == peekS(read(sub, 4), 4)
        TotalLength == peekS(sub, 4)
    IN  CASE sub.exc # NoErr -> sub
          [] subtype = 1 -> addObject(times(fields(sub, <<R(4), R(4), R(4), S(12)>>), ActualNumber,
                                            <<R(4), S(4), R(4)>>),
                                      Node("CATData", 0))
          [] subtype = 2 -> addObject(faceRecords(read(sub, 4), TotalLength), Node("CATData", 0))
          [] OTHER -> Raise(sub, ErrField)

opCurve(m) ==
    LET head == fields(m, <<R(2), R(8), S(4), U(4, {4, 5, 6})>>)
        NumberOfControlPoints == peekU(head, 4)
    IN  addObject(times(fields(head, <<R(4), S(4)>>), NumberOfControlPoints, Rep(3, R(8))),
                  Node("Curve", 0))

opLightPtAnimatPalette(m) ==
    LET head == fields(m, <<R(2), S(4), R(256), R(4)>> \o Rep(11, R(4)) \o <<R(1024)>>)
        NumberOfSequences == peekU(head, 4)
    IN  addObject(times(read(head, 4), NumberOfSequences, <<R(4), R(4), R(4)>>),
                  Node("LightPointAnimationPalette", 0))

opIdxStr(m) ==
    LET RecordLength == peekU(m, 2)
    IN  addObject(fields(m, <<R(2), R(4), Str(RecordLength - 8)>>), Node("IndexedString", 0))

opShaderPalette(m) ==
    LET RecordLength == peekU(m, 2)
        head == fields(m, <<R(2), R(4)>>)
        ShaderType == peekU(head, 4)
        named == fields(head, <<U(4, {0, 1, 2}), R(1024)>>)
        NumberOfVertexProgramFiles == peekU(named, 4)
        NumberOfFragmentProgramFiles == peekU(read(named, 4), 4)
        shader ==
            CASE ShaderType = 0 -> fields(named, <<R(1024), R(1024), R(4), R(4), R(256), R(256)>>)
              [] ShaderType = 1 -> skip(named, RecordLength - 1036)
              [] OTHER -> times(times(fields(named, <<R(4), R(4)>>),
                                      NumberOfVertexProgramFiles, <<R(1024)>>),
                                NumberOfFragmentProgramFiles, <<R(1024)>>)
    IN  addObject(shader, Node("ShaderPalette", 0))

opExtFieldString(m) ==
    LET GUIDPaletteIdx == fields(readChunk(m), <<C(R(4))>>)
        StringLength == chunkU(GUIDPaletteIdx, 4)
    IN  release(fields(GUIDPaletteIdx, <<C(R(4)), C(Str(StringLength))>>),
                Node("ExtensionFieldString", 0))

opExtFieldXMLString(m) ==
    LET GUIDPaletteIdx == fields(readChunk(m), <<C(R(4))>>)
        StringLength == chunkU(GUIDPaletteIdx, 4)
    IN  release(fields(GUIDPaletteIdx, <<C(R(4)), C(Str(StringLength))>>),
                Node("ExtensionFieldXMLString", 0))

(***************************************************************************)
(* External references and textures.                                       *)
(***************************************************************************)
\* The value of _readString(size): the bytes read, the zeros removed.
String(m, size) == SelectSeq(Bytes(m, size), LAMBDA b : b # 0)

\* _cleanExternalFilename(fileName): [exc, fileName], the exception it
\* raises or the name it returns.
cleanExternalFilename(d, name) ==
    LET translated(here, fileName, sep, full, escaped) ==
            LET last5 == SubSeq(sep, IF Len(sep) > 5 THEN Len(sep) - 4 ELSE 1, Len(sep))
                extension == dots(last5) = 1 /\ Exists(here \o sep)
            IN  CASE name = <<>> -> [exc |-> ErrNav, fileName |-> name]
                  [] Exists(fileName) -> [exc |-> NoErr, fileName |-> fileName]
                  [] in(<<92, 92>>, fileName) -> [exc |-> ErrName, fileName |-> fileName]
                  [] dots(sep) = 1 /\ ~extension -> [exc |-> ErrTranslate, fileName |-> sep]
                  [] in(<<92>>, full) /\ ~Exists(full) ->
                         [exc |-> IF Exists(escaped) THEN NoErr ELSE ErrTranslate,
                          fileName |-> escaped]
                  [] OTHER -> [exc |-> NoErr, fileName |-> full]
        joined(here, fileName, sep, full) ==
            translated(here, fileName, sep, full, replace(full, <<92>>, <<47>>))
        separated(here, fileName, sep) ==
            joined(here, fileName, sep, IF dots(sep) = 1 THEN here \o sep ELSE sep)
        located(here, fileName) ==
            separated(here, fileName,
                      replace(replace(fileName, <<92, 92>>, <<47>>), <<47, 47>>, <<47>>))
        from(here) == located(here, IF name[1] = 46 THEN here \o name ELSE name)
    IN  from(dirname(d.fileName) \o <<47>>)

\* The fields _parseTextureFile reads of an attribute file; the values are
\* validated in groups after they have been read.
TextureAttribute ==
    <<R(4), R(4), S(4), S(4)>> \o Rep(14, R(4))
    \o <<V(24, 0..5), V(28, 0..12), V(32, 0..10), V(40, {0, 1, 4}), V(44, {0, 1, 3, 4}),
         V(48, {0, 1, 3, 4}), V(64, 0..4), S(32), R(8), R(8)>>
    \o Rep(5, R(4)) \o <<V(128, 0..9), V(132, 0..2)>> \o Rep(26, R(4))
    \o <<I(4, 0..10), I(4, 0..10), S(36), R(8), R(8), R(8), S(28)>> \o Rep(11, R(4))
    \o <<R(4), R(4), S(4), R(4), R(4), R(4), V(384, {0, 3, 4, 7}), V(388, 0..4), V(400, {0, 1}),
         V(404, 0..2), S(8), I(4, {0, 1}), S(12), R(4), S(588), R(512), S(52), R(4), R(4)>>

\* _parseTextureFile(fileName), with _checkTextureFile: [exc, value], the
\* exception it raises or the Datatype of what it returns.  An attribute
\* file that ends early is no error: the dictionary is returned as far as
\* it was read.
parseTextureFile(d, name) ==
    LET returned(parsed) ==
            [exc |-> IF parsed.exc = ErrStruct THEN NoErr ELSE parsed.exc,
             value |-> "TextureAttribute"]
        \* with control points the subtextures are counted with
        \* range('NumberOfSubtextures')
        points(newObject, NumberOfGeospecificControlPoints) ==
            returned(IF NumberOfGeospecificControlPoints > 0
                     THEN fields(times(fields(newObject, <<S(4)>>),
                                       NumberOfGeospecificControlPoints, Rep(4, R(8))),
                                 <<R(4), X(ErrName)>>)
                     ELSE newObject)
        attributes(f) == points(fields(f, TextureAttribute), peekS([f EXCEPT !.self.f = 1592], 4))
        checked(fileName, attrFile) ==
            CASE ~Exists(fileName) ->
                   [exc |-> IF d.SkipMissingTextures THEN NoErr ELSE ErrNoTexture,
                    value |-> "File could not be found."]
              [] ~Exists(attrFile) -> [exc |-> ErrNoTexture, value |-> ""]
              [] OTHER -> attributes(Machine([d EXCEPT !.fileName = attrFile, !.f = 0]))
        found(fileName, dotAttr) ==
            checked(fileName,
                    IF Exists(dotAttr) THEN dotAttr
                    ELSE SubSeq(fileName, 1, Len(fileName) - 3) \o <<97, 116, 116, 114>>)
        cleaned(clean) ==
            IF clean.exc # NoErr THEN [exc |-> clean.exc, value |-> ""]
            ELSE found(clean.fileName, clean.fileName \o <<46, 97, 116, 116, 114>>)
    IN  cleaned(cleanExternalFilename(d, name))

\* ReadFile(), run to its end: [self, External, exc, loaded], the object
\* and the dictionary of external files it leaves, the exception it raises
\* and the files loaded up to its end.  It
\* calls itself through the loop, the dispatch and _opExtRef.
RECURSIVE ReadFile(_, _, _, _)
RECURSIVE iteration(_)
RECURSIVE decode(_, _)
RECURSIVE opExtRef(_)

\* The object without parent stores the records of the file it has read;
\* any other reads the file and then assigns to filename, a name not bound.
\* MaxDepth stands for the recursion limit of the interpreter.
opExtRef(m) ==
    LET newObject == Node("ExternalReference", 0)
        stored(back, fileName, extdb) ==
            CASE extdb.exc # NoErr -> Raise(back, extdb.exc)
              [] m.self.parent = None ->
                     addObject([back EXCEPT !.External = (fileName :> extdb.self) @@ @], newObject)
              [] OTHER -> Raise(back, ErrName)
        parsed(got, fileName, extdb) ==
            stored([got EXCEPT !.External = extdb.External, !.loaded = extdb.loaded], fileName,
                   extdb)
        referenced(got, fileName) ==
            CASE fileName \in DOMAIN got.External -> addObject(got, newObject)
              [] got.depth >= MaxDepth -> Raise(got, ErrRecursion)
              [] OTHER -> parsed(got, fileName,
                                 ReadFile(NewOpenFlight(fileName, 0, FALSE), got.External,
                                          got.depth + 1, got.loaded))
        cleaned(got, clean) ==
            CASE got.exc # NoErr -> got
              [] clean.exc # NoErr -> Raise(got, clean.exc)
              [] OTHER -> referenced(got, clean.fileName)
    IN  cleaned(fields(m, <<R(200), S(4), R(4), R(2), S(2)>>),
                cleanExternalFilename(m.self, String(m, 200)))

\* The texture is parsed unless Records['External'] of the object without
\* parent has the file name as it was read, and is kept there under it.
opTexturePalette(m) ==
    LET listed(added, Filename, TexturePatternIdx) ==
            IF added.exc # NoErr THEN added
            ELSE [added EXCEPT !.self.Textures =
                                   Append(@, [Filename |-> Filename,
                                              TexturePatternIdx |-> TexturePatternIdx])]
        kept(got, Filename, parsed) ==
            IF Filename \in DOMAIN got.External THEN got
            ELSE IF parsed.exc # NoErr THEN Raise(got, parsed.exc)
            ELSE [got EXCEPT !.External = (Filename :> [value |-> parsed.value]) @@ @]
        texture(got, Filename, TexturePatternIdx) ==
            listed(addObject(kept(got, Filename, parseTextureFile(m.self, Filename)),
                             Node("TexturePalette", TexturePatternIdx)),
                   Filename, TexturePatternIdx)
    IN  texture(fields(m, <<R(200), R(4), R(4), R(4)>>), String(m, 200), peekU(read(m, 200), 4))

\* The unsigned value of the four bytes of a chunk from index k (1-based).
Word(data, k) ==
    IF data[k] >= 128 THEN 2147483647
    ELSE ((data[k] * 256 + data[k + 1]) * 256 + data[k + 2]) * 256 + data[k + 3]

\* A vertex list that keeps no translation.
opVertexListUnmoved(m) ==
    LET listed(added, ByteOffset) ==
            IF added.exc # NoErr THEN added
            ELSE [added EXCEPT !.self.VertexList = Append(@, ByteOffset),
                               !.self.TexturePatterns = Append(@, added.self.TexturePatternIdx),
                               !.self.Scale = Append(@, "_CurrentScale")]
        offsets(chunked) ==
            listed(addObject([chunked EXCEPT !.self.Chunk = NoChunk], Node("VertexList", 0)),
                   [verIdx \in 1..(chunkLen(chunked) \div 4) |->
                       Word(chunked.self.Chunk.data, 4 * verIdx - 3)])
    IN  offsets(readChunk(m))

\* _opVertexList keeps the offsets, and with them the texture pattern index
\* of the last face and the current scale and translation: the scale is the
\* array object _CurrentScale itself, the translation the array bound then.
opVertexList(m) ==
    LET listed(added, ByteOffset) ==
            IF added.exc # NoErr THEN added
            ELSE [added EXCEPT !.self.VertexList = Append(@, ByteOffset),
                               !.self.TexturePatterns = Append(@, added.self.TexturePatternIdx),
                               !.self.Scale = Append(@, "_CurrentScale"),
                               !.self.Translate = Append(@, added.self.CurrentTranslate)]
        offsets(chunked) ==
            listed(addObject([chunked EXCEPT !.self.Chunk = NoChunk], Node("VertexList", 0)),
                   [verIdx \in 1..(chunkLen(chunked) \div 4) |->
                       Word(chunked.self.Chunk.data, 4 * verIdx - 3)])
    IN  offsets(readChunk(m))

(***************************************************************************)
(* ReadFile.                                                               *)
(***************************************************************************)
\* self._OpCodes[iRead][0]()
decode(m, fn) ==
    CASE fn = "opReserved" -> opReserved(m)
      [] fn = "opHeader" -> opHeader(m)
      [] fn = "opFace" -> opFace(m)
      [] fn = "opPush" -> opPush(m)
      [] fn = "opPop" -> opPop(m)
      [] fn = "opPushSubface" -> opPushSubface(m)
      [] fn = "opPopSubface" -> opPopSubface(m)
      [] fn = "opPushExtension" -> opPushExtension(m)
      [] fn = "opPopExtension" -> opPopExtension(m)
      [] fn = "opContinuation" -> opContinuation(m)
      [] fn = "opComment" -> opComment(m)
      [] fn = "opLongID" -> opLongID(m)
      [] fn = "opMatrix" -> opMatrix(m)
      [] fn = "opUVList" -> opUVList(m)
      [] fn = "opInstRef" -> opInstRef(m)
      [] fn = "opInstDef" -> opInstDef(m)
      [] fn = "opVertexPalette" -> opVertexPalette(m)
      [] fn = "opVertexColour" -> opVertexColour(m)
      [] fn = "opVertexColNorm" -> opVertexColNorm(m)
      [] fn = "opVertexColNormUV" -> opVertexColNormUV(m)
      [] fn = "opVertexColUV" -> opVertexColUV(m)
      [] fn = "opVertexList" -> opVertexList(m)
      [] fn = "opLoD" -> opLoD(m)
      [] fn = "opTranslate" -> opTranslate(m)
      [] fn = "opScale" -> opScale(m)
      [] fn = "opEyeTrackPalette" -> opEyeTrackPalette(m)
      [] fn = "opRoadPath" -> opRoadPath(m)
      [] fn = "opGenMatrix" -> opGenMatrix(m)
      [] fn = "opCAT" -> opCAT(m)
      [] fn = "opBoundHist" -> opBoundHist(m)
      [] fn = "opPushAttr" -> opPushAttr(m)
      [] fn = "opPopAttr" -> opPopAttr(m)
      [] fn = "opLightPtAppearPalette" -> opLightPtAppearPalette(m)
      [] fn = "opColourPalette" -> opColourPalette(m)
      [] fn = "opMultitexture" -> opMultitexture(m)
      [] fn = "opLocVertexPool" -> opLocVertexPool(m)
      [] fn = "opMeshPrim" -> opMeshPrim(m)
      [] fn = "opMorphVertex" -> opMorphVertex(m)
      [] fn = "opLinkPalette" -> opLinkPalette(m)
      [] fn = "opSoundPalette" -> opSoundPalette(m)
      [] fn = "opSwitch" -> opSwitch(m)
      [] fn = "opExtension" -> opExtension(m)
      [] fn = "opBoundConvexHull" -> opBoundConvexHull(m)
      [] fn = "opTextureMapPalette" -> opTextureMapPalette(m)
      [] fn = "opNameTable" -> opNameTable(m)
      [] fn = "opCATData" -> opCATData(m)
      [] fn = "opCurve" -> opCurve(m)
      [] fn = "opLightPtAnimatPalette" -> opLightPtAnimatPalette(m)
      [] fn = "opIdxStr" -> opIdxStr(m)
      [] fn = "opShaderPalette" -> opShaderPalette(m)
      [] fn = "opExtFieldString" -> opExtFieldString(m)
      [] fn = "opExtFieldXMLString" -> opExtFieldXMLString(m)
      [] fn = "opExtRef" -> opExtRef(m)
      [] fn = "opTexturePalette" -> opTexturePalette(m)
      [] OTHER -> opFixed(m, fn)

\* A pass of the loop without the test for obsolete opcodes.
iterationObsoleteMissed(m) ==
    LET done(iRead, decoded) ==
            [m |-> IF decoded.exc # NoErr THEN decoded
                   ELSE [decoded EXCEPT !.self.PreviousOpCode = iRead],
             iRead |-> iRead, broke |-> FALSE]
        sized(op, entry, RecordLength) ==
            IF entry.size = None THEN op
            ELSE Raise(read(op, 2), IF RecordLength # entry.size THEN ErrLength(entry.name) ELSE NoErr)
        dispatch(op, iRead, entry) == done(iRead, decode(sized(op, entry, peekU(op, 2)), entry.fn))
        record(op, iRead) ==
            CASE Available(m) = 0 -> [m |-> m, iRead |-> None, broke |-> TRUE]
              [] Available(m) = 1 -> [m |-> op, iRead |-> None, broke |-> FALSE]
              [] iRead \notin DOMAIN OpCodes(m.self) ->
                     [m |-> Raise(op, ErrUnknown), iRead |-> iRead, broke |-> FALSE]
              [] OTHER -> dispatch(op, iRead, OpCodes(m.self)[iRead])
    IN  record(read(m, 2), peekS(m, 2))

\* One pass of the while loop of ReadFile, from the read of the opcode on:
\* [m, iRead, broke], broke when the read found the end of the file.
iteration(m) ==
    LET done(iRead, decoded) ==
            [m |-> IF decoded.exc # NoErr THEN decoded
                   ELSE [decoded EXCEPT !.self.PreviousOpCode = iRead],
             iRead |-> iRead, broke |-> FALSE]
        sized(op, entry, RecordLength) ==
            IF entry.size = None THEN op
            ELSE Raise(read(op, 2), IF RecordLength # entry.size THEN ErrLength(entry.name) ELSE NoErr)
        dispatch(op, iRead, entry) == done(iRead, decode(sized(op, entry, peekU(op, 2)), entry.fn))
        record(op, iRead) ==
            CASE Available(m) = 0 -> [m |-> m, iRead |-> None, broke |-> TRUE]
              [] Available(m) = 1 -> [m |-> op, iRead |-> None, broke |-> FALSE]
              [] iRead \in ObsoleteOpCodes ->
                     [m |-> Raise(op, ErrObsolete), iRead |-> iRead, broke |-> FALSE]
              [] iRead \notin DOMAIN OpCodes(m.self) ->
                     [m |-> Raise(op, ErrUnknown), iRead |-> iRead, broke |-> FALSE]
              [] OTHER -> dispatch(op, iRead, OpCodes(m.self)[iRead])
    IN  record(read(m, 2), peekS(m, 2))

\* The while loop of ReadFile, run until it breaks or raises.
RECURSIVE loop(_)
loop(m) ==
    LET next(pass) == IF pass.broke \/ pass.m.exc # NoErr THEN pass.m ELSE loop(pass.m)
    IN  next(iteration(m))

ReadFile(d, External, depth, loaded) ==
    LET returned(m) ==
            [self |-> [m.self EXCEPT !.f = None, !.e = IF m.exc # NoErr THEN m.exc ELSE @],
             External |-> m.External, exc |-> NoErr, loaded |-> m.loaded]
        opened(self) ==
            [self EXCEPT !.f = self.LastPlace, !.TreeStack = <<>>, !.InstanceStack = <<>>]
        validated(checked) ==
            IF ~checked.ret
            THEN [self |-> checked.self, External |-> External, exc |-> ErrNotConform,
                  loaded |-> loaded]
            ELSE returned(loop([Machine(opened(checked.self)) EXCEPT
                                    !.External = External, !.depth = depth,
                                    !.loaded = Append(loaded, d.fileName)]))
    IN  IF ~Exists(d.fileName)
        THEN [self |-> d, External |-> External, exc |-> ErrNoFile, loaded |-> loaded]
        ELSE validated(IF d.LastPlace = None THEN isOpenFlightBody(d)
                       ELSE [self |-> d, ret |-> TRUE])

(***************************************************************************)
(* The files explored.                                                     *)
(***************************************************************************)
\* A header record of n body bytes for format revision fmt, valid but for
\* the bytes in bad (body offset :> byte).
HeaderOf(fmt, n, bad) ==
    Rec(1, 324, n, 0,
        bad @@ (10 :> fmt \div 256) @@ (11 :> fmt % 256) @@ (57 :> 1) @@ (123 :> 1))

Header == HeaderOf(1640, 320, <<>>)

\* The header of revision 16.4 with another declared length.
Declaring(len) == [Header EXCEPT !.len = len]

\* An instance definition or reference of instance number id.
Inst(op, id) == Rec(op, 8, 4, 0, 3 :> id)

\* A record of text: len - 4 letters.
Letters(op, len, letter) == Rec(op, len, len - 4, letter, <<>>)

\* Two bytes that make the size of a file no multiple of 4.
Odd == Rec(0, 0, -2, 0, <<>>)

Alphabet ==
    {Plain(2, 44), Plain(10, 4), Plain(11, 4), Inst(62, 7), Inst(61, 7),
     Letters(31, 8, 65), Letters(23, 12, 66)}

RECURSIVE Sequences(_)
Sequences(n) ==
    IF n = 0 THEN {<<>>}
    ELSE LET shorter == Sequences(n - 1)
         IN  shorter \cup {Append(s, r) : s \in {t \in shorter : Len(t) = n - 1}, r \in Alphabet}

\* One record of every registry opcode with its registry size (4 bytes when
\* its size is not fixed), after the header of three format revisions, and
\* with the size _check_header gives it for the revisions from 15.5 to 15.7.
Singles ==
    {<<HeaderOf(fmt, 320, <<>>), Plain(op, IF OpCodes0[op].size = None THEN 4 ELSE OpCodes0[op].size)>> :
        fmt \in {1540, 1570, 1640}, op \in DOMAIN OpCodes0}
    \cup {<<HeaderOf(fmt, 320, <<>>), Plain(op, newSizes[op].size)>> :
             fmt \in {1550, 1570}, op \in DOMAIN newSizes}

\* An instance definition, a face, a pop and a reference to the instance;
\* the same with the face between a push and the pop; and a group with an
\* object between a push and a pop, the group as long as the registry of
\* the format revision has it.
Face == Plain(5, 80)
ScenarioC == <<Header, Inst(62, 7), Face, Plain(11, 4), Inst(61, 7)>>
ScenarioCPushed == <<Header, Inst(62, 7), Plain(10, 4), Face, Plain(11, 4), Inst(61, 7)>>
ScenarioB(fmt) ==
    <<HeaderOf(fmt, 320, <<>>), Plain(2, IF fmt \in 1550..1579 THEN 32 ELSE 44), Plain(10, 4),
      Plain(4, 28), Plain(11, 4)>>
\* The instance defined and referred to below a push of the tree; and an
\* instance 0 defined inside instance 2, whose element 0 is a reference to
\* instance 1, to which the tree refers.
ScenarioCBelow ==
    <<Header, Plain(10, 4), Inst(62, 7), Plain(10, 4), Face, Plain(11, 4), Inst(61, 7), Plain(11, 4)>>
ScenarioCInside ==
    <<Header, Inst(62, 1), Plain(10, 4), Plain(11, 4), Inst(61, 1), Inst(62, 2), Inst(61, 1),
      Inst(62, 0), Plain(2, 44), Plain(11, 4)>>
Scenarios ==
    {ScenarioB(fmt) : fmt \in {1540, 1570, 1640}}
    \cup {ScenarioC, ScenarioCPushed, ScenarioCBelow, ScenarioCInside}

\* Files that are not OpenFlight files, and files with opcodes outside the registry.
Others ==
    {<<Header, Plain(2, 44), Odd>>,
     <<Header, Odd>>,
     <<HeaderOf(1640, 320, 57 :> 2)>>,
     <<HeaderOf(1640, 320, 58 :> 3), Plain(2, 44)>>,
     <<HeaderOf(1640, 320, 91 :> 9), Plain(2, 44)>>,
     <<HeaderOf(1640, 320, 123 :> 0), Plain(2, 44)>>,
     <<HeaderOf(1640, 320, 267 :> 9), Plain(2, 44)>>,
     <<HeaderOf(1000, 320, <<>>), Plain(2, 44)>>,
     <<HeaderOf(1640, 100, <<>>)>>,
     <<HeaderOf(1540, 272, <<>>), Plain(10, 4), Plain(2, 44), Plain(11, 4)>>,
     <<Rec(2, 324, 320, 0, (10 :> 6) @@ (11 :> 104) @@ (57 :> 1) @@ (123 :> 1)), Plain(2, 44)>>,
     <<Header, Plain(6, 8)>>, <<Header, Plain(2, 44), Plain(77, 4)>>,
     <<Header, Plain(999, 8)>>, <<Header, Plain(2, 44), Plain(155, 4)>>,
     <<Header, Plain(2, 40)>>,
     <<Header, Plain(122, 8), Plain(2, 44)>>, <<Header, Plain(40000, 8)>>}
    \cup {<<Declaring(len), Plain(2, 44)>> : len \in {0, 320, 328}}
    \cup {<<HeaderOf(fmt, 320, <<>>), Plain(op, 8)>> : fmt \in {1540, 1570, 1640}, op \in ObsoleteOpCodes}

\* Records of the opcodes without a fixed size, after the header and before
\* a group: well-formed ones, short ones and ones with invalid fields.
Varied ==
    {<<Header, r, Plain(2, 44)>> : r \in
        {Plain(32, 4228), Rec(32, 4240, 4236, 0, 4227 :> 1),
         Plain(52, 16), Rec(52, 24, 12, 0, <<>>), Plain(52, 4),
         Rec(85, 36, 32, 0, (3 :> 1) @@ (7 :> 1)), Rec(85, 12, 8, 0, (3 :> 2) @@ (7 :> 6)),
         Rec(85, 12, 8, 0, 3 :> 2), Rec(85, 36, 32, 0, (3 :> 2) @@ (7 :> 1)),
         Rec(85, 92, 88, 0, (3 :> 1) @@ (6 :> 15) @@ (7 :> 249)),
         Rec(86, 14, 10, 0, (3 :> 2) @@ (7 :> 1)), Rec(86, 14, 10, 0, (3 :> 3) @@ (7 :> 1)),
         Rec(86, 14, 10, 0, (3 :> 1) @@ (7 :> 9)),
         Plain(89, 20), Plain(89, 10),
         Rec(90, 32, 28, 0, 3 :> 1), Rec(90, 44, 40, 0, (3 :> 1) @@ (11 :> 1)), Rec(90, 20, 16, 0, 3 :> 2),
         Rec(90, 8, 12, 0, 3 :> 2), Plain(90, 8),
         Rec(93, 40, 36, 0, (3 :> 1) @@ (11 :> 1)), Rec(93, 16, 12, 0, 3 :> 2), Rec(93, 8, 8, 0, 3 :> 2),
         Plain(93, 8), Rec(93, 28, 24, 0, (3 :> 1) @@ (8 :> 255)),
         Plain(96, 28),
         Plain(100, 24), Plain(100, 30), Plain(100, 12),
         Plain(107, 8), Plain(107, 16), Plain(107, 84),
         Plain(112, 168), Rec(112, 168, 164, 0, 31 :> 3), Rec(112, 168, 164, 0, 31 :> 5),
         Rec(112, 172, 168, 0, (31 :> 5) @@ (167 :> 1)),
         Rec(112, 400, 396, 0, (31 :> 1) @@ (171 :> 1) @@ (383 :> 1) @@ (387 :> 1)),
         Rec(112, 400, 396, 0, (31 :> 1) @@ (171 :> 1) @@ (383 :> 1)),
         Rec(112, 580, 576, 0, (31 :> 2) @@ (171 :> 4) @@ (431 :> 4) @@ (435 :> 2)),
         Rec(112, 208, 204, 0, 31 :> 4), Rec(112, 440, 436, 0, 35 :> 1),
         Rec(112, 168, 164, 0, (32 :> 255) @@ (33 :> 255) @@ (34 :> 255) @@ (35 :> 255)),
         Rec(114, 22, 18, 0, (3 :> 1) @@ (9 :> 10)), Rec(114, 22, 18, 0, (3 :> 1) @@ (9 :> 87)),
         Rec(114, 22, 18, 0, (3 :> 1) @@ (9 :> 2)), Rec(114, 22, 18, 0, (3 :> 2) @@ (9 :> 6)),
         Rec(114, 10, 6, 0, 0 :> 255),
         Rec(116, 32, 28, 0, 3 :> 1), Rec(116, 44, 40, 0, (3 :> 1) @@ (11 :> 1)),
         Rec(116, 38, 34, 0, (3 :> 2) @@ (7 :> 1) @@ (31 :> 2)),
         Rec(116, 38, 34, 0, (3 :> 2) @@ (7 :> 1) @@ (28 :> 255)), Plain(116, 8),
         Rec(126, 52, 48, 0, (15 :> 4) @@ (19 :> 1)), Rec(126, 28, 24, 0, 15 :> 6), Plain(126, 28),
         Plain(129, 1340), Rec(129, 1352, 1348, 0, 1335 :> 1), Rec(129, 1340, 1336, 0, 1335 :> 1),
         Plain(132, 12), Plain(132, 8), Rec(132, 6, 4, 0, <<>>),
         Plain(133, 3604), Rec(133, 1044, 1040, 0, 7 :> 1), Rec(133, 4, 1032, 0, 7 :> 1),
         Rec(133, 3092, 3088, 0, (7 :> 2) @@ (1035 :> 1) @@ (1039 :> 1)), Rec(133, 1036, 1032, 0, 7 :> 3),
         Rec(153, 16, 12, 0, 7 :> 4), Rec(153, 16, 12, 0, 7 :> 5), Rec(153, 16, 12, 0, 4 :> 200),
         Rec(154, 16, 12, 0, 7 :> 4), Plain(154, 8)}}
    \cup {<<Header, r, Letters(23, 12, 66), Letters(23, 8, 67), Plain(2, 44)>> : r \in
        {Rec(85, 36, 32, 0, (3 :> 2) @@ (7 :> 8)), Rec(86, 12, 8, 0, (3 :> 1) @@ (7 :> 12)),
         Plain(89, 8), Plain(100, 24), Plain(107, 8), Rec(114, 22, 18, 0, (3 :> 2) @@ (9 :> 6)),
         Rec(153, 12, 8, 0, 7 :> 12)}}

\* Bounding histograms that declare a length of 12, 4, 2 and 0 bytes, before a group.
Histograms ==
    {<<Header, Rec(119, len, IF len > 4 THEN len - 4 ELSE 0, 0, <<>>), Plain(2, 44)>> :
        len \in {12, 4, 2, 0}}

\* A face with texture pattern index p, a vertex list of one offset, and a
\* scale and a translation whose x begins with byte x; files in which scales
\* and translations come between vertex lists.
Textured(p) == Rec(5, 80, 76, 0, 25 :> p)
VertexListOf(offset) == Rec(72, 8, 4, 0, 3 :> offset)
Scaling(x) == Rec(79, 48, 44, 0, 28 :> x)
Moving(x) == Rec(78, 56, 52, 0, 28 :> x)
Traces ==
    {<<Header, Textured(3), VertexListOf(8), Scaling(64), Moving(64), VertexListOf(48)>>,
     <<Header, VertexListOf(8), Moving(64), Textured(3), VertexListOf(8), Moving(65)>>,
     <<Header, Scaling(64), VertexListOf(8), Plain(2, 44)>>,
     <<Header, Plain(67, 8), Plain(68, 40), Plain(70, 64), VertexListOf(8), VertexListOf(48),
       Plain(2, 44)>>}

\* A vertex palette and vertices of the four kinds, each as long as the
\* registry of the format revision has it.
VertexOf(fmt, op) ==
    Plain(op, IF fmt \in 1550..1579 /\ op \in DOMAIN newSizes THEN newSizes[op].size
              ELSE OpCodes0[op].size)
Palettes ==
    {<<HeaderOf(fmt, 320, <<>>), Plain(67, 8)>> \o [k \in 1..Len(ops) |-> VertexOf(fmt, ops[k])] :
        fmt \in {1540, 1570, 1640}, ops \in {<<68, 69, 70, 71, 69>>, <<70, 71, 68, 70>>}}

Files == {[recs |-> <<Header>> \o s] : s \in Sequences(MaxRecords)}
         \cup {[recs |-> s] : s \in Singles \cup Others \cup Varied \cup Scenarios \cup Histograms
                                     \cup Traces \cup Palettes}

\* The name the object is constructed with: d/m.
Main == <<100, 47, 109>>

\* A record that starts with a file name.
Named(op, len, name, set) ==
    Rec(op, len, len - 4, 0, [i \in 0..(Len(name) - 1) |-> name[i + 1]] @@ set)
ExtRef(name) == Named(63, 216, name, <<>>)
Texture(name, idx) == Named(64, 216, name, 203 :> idx)

\* A file of n bytes that is no database: a texture, or its attributes
\* (file offset - 4 :> byte).
Data(n, set) == [recs |-> <<Rec(0, 0, n - 4, 0, set)>>]

\* The disks with more than the file Main: lenient is the
\* skip_missing_textures the object is constructed with.
Disk(lenient, main, others) == [fs |-> (Main :> [recs |-> main]) @@ others, skip |-> lenient]
Group == Plain(2, 44)
b == <<98>>
db == <<100, 47, 98>>
dc == <<100, 47, 99>>
dotb == <<46, 47, 98>>
dotc == <<46, 47, 99>>
dotm == <<46, 47, 109>>
tex == <<116>>
dottex == <<46, 47, 116>>
dtex == <<100, 47, 116>>
attr == <<97, 116, 116, 114>>
texattr == <<116, 46, 97, 116, 116, 114>>
dtexattr == <<100, 47, 116, 46, 97, 116, 116, 114>>
Good == [recs |-> <<Header, Plain(10, 4), Group, Plain(11, 4)>>]

References ==
    {Disk(FALSE, <<Header, ExtRef(dotb), Group>>, others) : others \in
        {db :> Good, <<>>, b :> Good,
         db :> [recs |-> <<Header, Plain(11, 4), Group>>],
         db :> [recs |-> <<Header, Odd>>],
         db :> [recs |-> <<Header, Group, Plain(999, 8)>>],
         (db :> [recs |-> <<Header, ExtRef(dotc), Group>>]) @@ (dc :> Good),
         db :> [recs |-> <<Header, ExtRef(dotc), Group>>],
         db :> [recs |-> <<Header, ExtRef(dotb), Group>>],
         (db :> [recs |-> <<Header, Texture(dottex, 5), Group>>]) @@ (dtex :> Data(4, <<>>))
            @@ (dtexattr :> Data(1596, <<>>)),
         db :> [recs |-> <<Header, Texture(tex, 5), Group>>]}}
    \cup {Disk(FALSE, <<Header, ExtRef(name), Group>>, others) :
             name \in {b, db, <<98, 46, 120>>, <<100, 92, 98>>, <<100, 92, 92, 98>>, <<100, 47, 47, 98>>,
                       dotm, Main, <<46, 46, 98>>},
             others \in {db :> Good, b :> Good, <<100, 47, 98, 46, 120>> :> Good, <<>>}}
    \cup {Disk(FALSE, <<Header, ExtRef(dotb), Plain(10, 4), ExtRef(dotb), ExtRef(db), Plain(11, 4)>>,
               db :> Good),
          Disk(FALSE, <<Header, ExtRef(db), ExtRef(dc)>>,
               (db :> [recs |-> <<Header, ExtRef(dc), Group>>]) @@ (dc :> Good)),
          Disk(FALSE, <<Header, ExtRef(db), Group>>, db :> [recs |-> <<Header, ExtRef(Main), Group>>])}

Textures ==
    {Disk(lenient, <<Header, Texture(name, 5), Group>>, others) :
        lenient \in BOOLEAN, name \in {tex, dottex},
        others \in {(tex :> Data(4, <<>>)) @@ (texattr :> Data(1596, <<>>)),
                    (tex :> Data(4, <<>>)) @@ (attr :> Data(1596, <<>>)),
                    (dtex :> Data(4, <<>>)) @@ (dtexattr :> Data(1596, <<>>)),
                    tex :> Data(4, <<>>), texattr :> Data(1596, <<>>), <<>>}}
    \cup {Disk(FALSE, <<Header, Texture(tex, 5), Group>>, (tex :> Data(4, <<>>)) @@ (texattr :> file)) :
             file \in {Data(800, <<>>), Data(0, <<>>), Data(1600, <<>>), Data(1592, <<>>),
                       Data(1596, 23 :> 9), Data(1596, 27 :> 200), Data(1596, 124 :> 128),
                       Data(1596, 243 :> 11), Data(1596, 399 :> 3), Data(1596, 419 :> 2),
                       Data(1600, 1591 :> 1), Data(1640, 1591 :> 1), Data(1700, 1591 :> 2),
                       Data(1596, 1588 :> 255)}}
    \cup {Disk(lenient, <<Header, Texture(tex, 5), Plain(10, 4), Texture(tex, 6), Plain(11, 4), Texture(dottex, 7)>>,
               others) :
             lenient \in BOOLEAN,
             others \in {(tex :> Data(4, <<>>)) @@ (texattr :> Data(1596, <<>>)), <<>>}}
    \cup {Disk(TRUE, <<Header, ExtRef(db), Group>>,
               db :> [recs |-> <<Header, Texture(tex, 5), Group>>]),
          Disk(FALSE, <<Header, Texture(dtex, 5), Texture(dottex, 6), Texture(dtex, 7)>>,
               (dtex :> Data(4, <<>>)) @@ (dtexattr :> Data(1596, <<>>)))}

Disks == {Disk(FALSE, file.recs, <<>>) : file \in Files} \cup {[fs |-> <<>>, skip |-> FALSE]}
         \cup References \cup Textures

(***************************************************************************)
(* The caller: it constructs one object for Main and calls isOpenFlight    *)
(* and ReadFile on it, MaxCalls times at most.                             *)
(***************************************************************************)
NoCall == [call |-> "none", how |-> "none", ret |-> FALSE, exc |-> NoErr]

\* ReadFile's frame: the last iteration's opcode, where it started and
\* ended, the exception it raised, and what its _readChunk saw; fatal is
\* the exception the loop of this call ended with, and loaded the files that
\* _opExtRef has had loaded since the call began.  A call starts with no
\* frame.  was is the object as the last step found it.
NoFrame == [iRead |-> None, start |-> None, end |-> None, exc |-> NoErr, rc |-> NoReadChunk,
            fatal |-> NoErr, loaded |-> <<>>]

Init ==
    /\ \E disk \in Disks :
         /\ fs = disk.fs
         /\ doc = NewOpenFlight(Main, None, disk.skip)
    /\ pc = "idle"
    /\ outcome = NoCall
    /\ calls = 0
    /\ rf = NoFrame
    /\ was = doc

\* A call of isOpenFlight().
CallIsOpenFlight ==
    /\ pc = "idle"
    /\ calls < MaxCalls
    /\ calls' = calls + 1
    /\ IF ~Exists(doc.fileName)
       THEN /\ outcome' = [call |-> "isOpenFlight", how |-> "raised", ret |-> FALSE, exc |-> ErrNoFile]
            /\ doc' = doc
       ELSE LET done == isOpenFlightBody(doc)
            IN  /\ outcome' = [call |-> "isOpenFlight", how |-> "returned", ret |-> done.ret, exc |-> NoErr]
                /\ doc' = done.self
    /\ rf' = NoFrame
    /\ was' = doc'
    /\ UNCHANGED <<fs, pc>>

\* A call of ReadFile(), up to the try statement.
CallReadFile ==
    /\ pc = "idle"
    /\ calls < MaxCalls
    /\ calls' = calls + 1
    /\ LET opened(self) ==
               [self EXCEPT !.f = self.LastPlace, !.TreeStack = <<>>, !.InstanceStack = <<>>]
           validated(checked) ==
               CASE ~Exists(doc.fileName) ->
                      /\ outcome' = [call |-> "ReadFile", how |-> "raised", ret |-> FALSE,
                                     exc |-> ErrNoFile]
                      /\ UNCHANGED <<doc, pc>>
                 [] Exists(doc.fileName) /\ ~checked.ret ->
                      /\ outcome' = [call |-> "ReadFile", how |-> "raised", ret |-> FALSE,
                                     exc |-> ErrNotConform]
                      /\ doc' = checked.self
                      /\ pc' = pc
                 [] OTHER ->
                      /\ outcome' = [call |-> "ReadFile", how |-> "running", ret |-> FALSE,
                                     exc |-> NoErr]
                      /\ doc' = opened(checked.self)
                      /\ pc' = "loop"
       IN  validated(IF doc.LastPlace = None THEN isOpenFlightBody(doc)
                     ELSE [self |-> doc, ret |-> TRUE])
    /\ rf' = NoFrame
    /\ was' = doc'
    /\ fs' = fs

\* One pass of the while loop, and with it the end of the call when the
\* pass breaks out of the loop or raises: the except clause keeps the
\* exception in self.e, the finally clause closes the file, and ReadFile
\* returns.
Iterate ==
    /\ pc = "loop"
    /\ LET frame(iRead, m) ==
               [iRead |-> iRead, start |-> doc.f, end |-> m.self.f, exc |-> m.exc, rc |-> m.rc,
                fatal |-> m.exc, loaded |-> rf.loaded \o m.loaded]
           step(pass, m) ==
               IF pass.broke \/ m.exc # NoErr
               THEN /\ doc' = [m.self EXCEPT !.f = None, !.e = IF m.exc # NoErr THEN m.exc ELSE @,
                                             !.External = m.External]
                    /\ pc' = "idle"
                    /\ outcome' = [call |-> "ReadFile", how |-> "returned", ret |-> FALSE,
                                   exc |-> NoErr]
                    /\ rf' = frame(pass.iRead, m)
               ELSE /\ doc' = [m.self EXCEPT !.External = m.External]
                    /\ rf' = frame(pass.iRead, m)
                    /\ UNCHANGED <<pc, outcome>>
           passed(pass) == step(pass, pass.m)
       IN  passed(iteration(Machine(doc)))
    /\ was' = doc
    /\ UNCHANGED <<fs, calls>>

Next == CallIsOpenFlight \/ CallReadFile \/ Iterate

Spec == Init /\ [][Next]_vars

(***************************************************************************)
(* Properties.  rf is the frame of the last pass of the loop, was the      *)
(* object before that pass and doc the object after it.                    *)
(***************************************************************************)
\* The last pass read opcode op and, the record being whole and of the
\* registry's length, called its decoder.
Dispatched(op) == rf.iRead = op /\ rf.exc \notin {ErrStruct, ErrLength(OpCodes0[op].name)}

\* C1: a pass of the dispatch loop that decodes, without error, a record
\* whose opcode has a fixed size S in the registry leaves the stream exactly
\* S bytes after the start of the record.
C1_FixedSizeAdvance ==
    (rf.iRead \in DOMAIN OpCodes(was) /\ OpCodes(was)[rf.iRead].size # None /\ rf.exc = NoErr)
        => rf.end - rf.start = OpCodes(was)[rf.iRead].size

\* C2: in Tree mode a Push makes the tree stack one deeper and a Pop one
\* shallower; a Pop on the empty tree stack fails, ends the pass and leaves
\* the tree stack and the tree as they were; the depth is never negative.
C2_PushPopDepth ==
    /\ Len(doc.TreeStack) >= 0
    /\ (was.RecordType = "Tree" /\ rf.iRead = 10 /\ rf.exc = NoErr)
           => Len(doc.TreeStack) = Len(was.TreeStack) + 1
    /\ (was.RecordType = "Tree" /\ Dispatched(11) /\ Len(was.TreeStack) > 0)
           => rf.exc = NoErr /\ Len(doc.TreeStack) = Len(was.TreeStack) - 1
    /\ (was.RecordType = "Tree" /\ Dispatched(11) /\ Len(was.TreeStack) = 0)
           => /\ rf.exc = ErrPop
              /\ pc = "idle"
              /\ doc.TreeStack = was.TreeStack
              /\ doc.heap = was.heap

\* A Pop failed on the empty tree stack after a Push and a Pop had been made.
C2_Witness == rf.iRead = 11 /\ rf.exc = ErrPop /\ Len(was.heap) > 1 /\ was.RecordType = "Tree"

\* The records _readChunk consumed are whole: each declares at least its
\* four leading bytes and ends within the file.
Complete(parts) ==
    \A i \in 1..Len(parts) : parts[i].len >= 4 /\ parts[i].at + parts[i].len <= FileSize(File(was))

\* Where the record after the last of them starts.
NextRecord(parts) == parts[Len(parts)].at + parts[Len(parts)].len

\* C3: a record read through _readChunk, with the continuation records
\* that follow it, is reassembled and the stream is left at the start of
\* the next record, also when these records are the last of the file.
C3_ChunkLeavesStreamAtNextRecord ==
    (rf.rc.parts # <<>> /\ Complete(rf.rc.parts))
        => /\ rf.rc.done
           /\ rf.exc = NoErr => rf.end = NextRecord(rf.rc.parts)

\* The sum of (declared length - 4) over the records from the i-th on.
RECURSIVE Declared(_, _)
Declared(parts, i) == IF i > Len(parts) THEN 0 ELSE parts[i].len - 4 + Declared(parts, i + 1)

\* The bodies of the records from the i-th on, as they are in the file.
RECURSIVE Bodies(_, _, _)
Bodies(file, parts, i) ==
    IF i > Len(parts) THEN <<>>
    ELSE [k \in 1..(parts[i].len - 4) |-> ByteAt(file, parts[i].at + 3 + k)] \o Bodies(file, parts, i + 1)

\* C4: the buffer _readChunk hands to the decoder is as long as the sum of
\* (declared length - 4) over the record and the continuation records that
\* follow it, and is their bodies in the order of the stream.
C4_ReassembledLength ==
    rf.rc.done => /\ Len(rf.rc.chunk) = Declared(rf.rc.parts, 1)
                  /\ rf.rc.chunk = Bodies(File(was), rf.rc.parts, 1)

\* A record with two continuation records was reassembled and decoded.
C4_Witness == rf.rc.done /\ Len(rf.rc.parts) = 3 /\ rf.exc = NoErr /\ Len(rf.rc.chunk) > 8

\* C5: opcode 23 read by the dispatch loop always ends the pass with an
\* error and adds no node; the only continuation records consumed are
\* those _readChunk finds right behind the record it reassembles.
C5_ContinuationOnlyAfterChunk ==
    /\ rf.iRead = 23 => /\ rf.exc = ErrContinuation
                        /\ pc = "idle"
                        /\ doc.heap = was.heap
                        /\ doc.Instances = was.Instances
    /\ \A i \in 2..Len(rf.rc.parts) :
          /\ rf.rc.parts[i].at = rf.rc.parts[i - 1].at + rf.rc.parts[i - 1].len
          /\ Unsigned(File(was), rf.rc.parts[i].at, 2) = 23

\* A continuation record after a group reached the dispatch loop.
C5_Witness == rf.iRead = 23 /\ rf.exc = ErrContinuation /\ was.PreviousOpCode = 2
C7_FatalErrorsPropagate ==
    (outcome.call = "ReadFile" /\ outcome.how = "returned") => rf.exc = NoErr

\* C8: between calls, that is whenever isOpenFlight or ReadFile has given
\* control back, by returning or by raising, self.f is None.
C8_HandleClosed == pc = "idle" => doc.f = None

\* ReadFile has come back after an error ended its loop with the file open.
C8_Witness ==
    outcome.call = "ReadFile" /\ pc = "idle" /\ rf.exc # NoErr /\ was.f # None /\ doc.f = None

\* C9: the dispatch loop is never entered for a file that fails the
\* validation of isOpenFlight, whichever calls were made before: no record
\* of it is decoded and nothing is added to Records.
C9_InvalidFileNeverRead ==
    (Exists(Main) /\ ~isOpenFlightBody(NewOpenFlight(Main, None, FALSE)).ret)
        => pc = "idle" /\ rf = NoFrame /\ doc.heap = << <<>> >>

\* C10: an instance definition of a number that is a key of Instances
\* fails, ends the pass and leaves Instances and every list as they were;
\* an instance reference to a number that is no key fails, ends the pass
\* and adds nothing; so a number is defined once at most and referred to
\* only when defined.
C10_InstanceIndex ==
    LET instance == Unsigned(File(was), rf.start + 4, 4)
        unchanged == pc = "idle" /\ doc.Instances = was.Instances /\ doc.heap = was.heap
    IN  /\ (Dispatched(62) /\ instance \in DOMAIN was.Instances) => rf.exc = ErrInstDef /\ unchanged
        /\ (Dispatched(61) /\ instance \notin DOMAIN was.Instances) => rf.exc = ErrInstRef /\ unchanged
        /\ (rf.iRead = 62 /\ rf.exc = NoErr)
              => instance \notin DOMAIN was.Instances /\ instance \in DOMAIN doc.Instances
        /\ (rf.iRead = 61 /\ rf.exc = NoErr) => instance \in DOMAIN was.Instances

\* Instance 7 was defined a second time.
C10_Witness == rf.iRead = 62 /\ rf.exc = ErrInstDef /\ 7 \in DOMAIN was.Instances

C12_LoadedOnce ==
    /\ \A i, j \in 1..Len(rf.loaded) : rf.loaded[i] = rf.loaded[j] => i = j
    /\ rf.exc = NoErr => \A i \in 1..Len(rf.loaded) : rf.loaded[i] \in DOMAIN doc.External

\* The file name a texture palette record of the last pass holds, and
\* whether the texture it names, or the attribute file of that texture, is
\* not there.
Filename == String(Machine([was EXCEPT !.f = rf.start + 4]), 200)

MissingTexture ==
    LET missing(clean) ==
            /\ clean.exc = NoErr
            /\ \/ ~Exists(clean.fileName)
               \/ /\ ~Exists(clean.fileName \o <<46>> \o attr)
                  /\ ~Exists(SubSeq(clean.fileName, 1, Len(clean.fileName) - 3) \o attr)
    IN  missing(cleanExternalFilename(was, Filename))

\* C13: a texture palette record that names a texture not yet in
\* Records['External'], the texture or its attribute file missing, stores
\* "File could not be found." under the name and lets the pass go on when
\* the object was constructed with skip_missing_textures, and ends the pass
\* when it was not; and no pass over a file loaded for an external
\* reference of such an object ends for a missing texture.
C13_SkipMissingTextures ==
    /\ (Dispatched(64) /\ Filename \notin DOMAIN was.External /\ MissingTexture)
          => IF was.SkipMissingTextures
             THEN /\ rf.exc = NoErr
                  /\ pc = "loop"
                  /\ Filename \in DOMAIN doc.External
                  /\ doc.External[Filename] = [value |-> "File could not be found."]
             ELSE rf.exc # NoErr /\ pc = "idle"
    /\ doc.SkipMissingTextures
          => \A name \in DOMAIN doc.External :
                "e" \in DOMAIN doc.External[name] => doc.External[name].e # ErrNoTexture

\* ReadFile, called once, has returned from the file of these records.
Read(recs) ==
    /\ Main \in DOMAIN fs
    /\ fs[Main].recs = recs
    /\ calls = 1
    /\ pc = "idle"
    /\ outcome.call = "ReadFile"

\* The Datatype of each element of a list.
Datatypes(list) == [i \in 1..Len(list) |-> list[i].Datatype]

\* C14: after the records instance definition 7, face, pop and instance
\* reference 7, Instances[7] holds one face and nothing else, the record
\* type is "Tree" again, and Records['Tree'] holds one element, the list
\* Instances[7] itself.
C14_ScenarioC ==
    Read(ScenarioC)
        => /\ 7 \in DOMAIN doc.Instances
           /\ Datatypes(doc.heap[doc.Instances[7]]) = <<"Face">>
           /\ doc.RecordType = "Tree"
           /\ doc.heap[TreeAt] = <<ListNode(doc.Instances[7])>>

\* C15: after the records group, push, object and pop behind a valid
\* header the pass has ended without error, Records['Tree'] holds the group
\* and behind it the list the push opened, which is the children of the
\* group and holds the object and nothing else, and the tree stack is
\* empty.
C15_ScenarioB ==
    \A fmt \in {1540, 1570, 1640} :
        Read(ScenarioB(fmt))
            => /\ doc.e = NoErr
               /\ Datatypes(doc.heap[TreeAt]) = <<"Group", "list">>
               /\ Datatypes(doc.heap[doc.heap[TreeAt][2].at]) = <<"Object">>
               /\ doc.TreeStack = <<>>
               /\ doc.RecordType = "Tree"

\* The pass over these records has ended, for a file of revision 15.7.
C15_Witness == Read(ScenarioB(1570)) /\ Len(doc.heap) = 2 /\ doc.PreviousOpCode = 11

\* C16: whatever the format revision of the header, the decoder of a
\* group, of a vertex with colour and normal, without or with UV, and of a
\* scale reads the size the registry holds for its opcode after
\* _check_header, less the four bytes the loop has read.
C16_VersionSizes ==
    (rf.iRead \in {2, 69, 70, 79} /\ was.FileFormat \in OpenFlightFormats /\ rf.exc = NoErr)
        => rf.end = rf.start + 4 + (OpCodes(was)[rf.iRead].size - 4)

\* C17: a file whose first record declares a length other than 324 is no
\* OpenFlight file: isOpenFlight returns False for it, ReadFile raises, and
\* no record of it is decoded.
C17_HeaderLength ==
    (Main \in DOMAIN fs /\ fs[Main].recs[1].len # 324)
        => /\ pc = "idle"
           /\ doc.LastPlace = None
           /\ outcome.call = "isOpenFlight" => ~outcome.ret
           /\ outcome.call = "ReadFile" => outcome.how = "raised"
           /\ doc.heap = << <<>> >>

\* C18: once a file has been validated, _LastPlace, where the loop of
\* ReadFile starts to read, is the length its header record declares: the
\* first byte of the record behind the header.
C18_LastPlace ==
    (Main \in DOMAIN fs /\ doc.LastPlace # None) => doc.LastPlace = fs[Main].recs[1].len

\* C19: between two passes of the loop the record type is "Instances"
\* exactly when the instance stack is not empty, and then the stack starts
\* with a key of Instances and addresses a list.
C19_InstanceMode ==
    pc = "loop"
        => /\ doc.RecordType = "Instances" <=> doc.InstanceStack # <<>>
           /\ doc.InstanceStack # <<>>
                 => /\ doc.InstanceStack[1] \in DOMAIN doc.Instances
                    /\ Descend(doc, InstancesDict, doc.InstanceStack, 1).Datatype = "list"

\* The lists of Records['Tree']: the list itself and every list met in it,
\* those of the instances it refers to included.
RECURSIVE Lists(_, _)
Lists(d, lists) ==
    LET opened(list) == {list[i].at : i \in {j \in 1..Len(list) : list[j].Datatype = "list"}}
        next == lists \cup UNION {opened(d.heap[at]) : at \in lists}
    IN  IF next = lists THEN lists ELSE Lists(d, next)

\* C20: a pop in Instances mode that finds the instance stack two deep
\* makes the record type "Tree" and the instance stack empty; and no pass
\* that decodes an instance definition or starts in Instances mode changes
\* the tree stack or a list of Records['Tree'], so that the tree is added
\* to after the pop where it was added to before the instance definition.
C20_InstanceScope ==
    /\ (was.RecordType = "Instances" /\ Dispatched(11) /\ Len(was.InstanceStack) = 2)
          => rf.exc = NoErr /\ doc.RecordType = "Tree" /\ doc.InstanceStack = <<>>
    /\ (was.RecordType = "Instances" \/ rf.iRead = 62)
          => /\ doc.TreeStack = was.TreeStack
             /\ \A at \in Lists(was, {TreeAt}) : doc.heap[at] = was.heap[at]

\* C21: a pass of the dispatch loop that ends without error leaves the
\* stream after the place where the pass found it, whatever the record
\* holds, so that the loop comes to the end of the file.
C21_ForwardOnly ==
    (rf.iRead # None /\ rf.exc = NoErr) => rf.end > rf.start

\* The i-th scale of the trace of vertex lists: the array the entry is.
ScaleOf(d, i) == IF d.Scale[i] = "_CurrentScale" THEN d.CurrentScale ELSE d.Scale[i]

\* C22: no pass changes an entry that VertexList, TexturePatterns, Scale and
\* Translate already hold, and a pass that decodes a vertex list adds to
\* each the offsets of the record and the texture pattern index, scale and
\* translation in effect before it.
C22_TraceAppendOnly ==
    LET n == Len(doc.VertexList)
    IN  /\ \A i \in 1..Len(was.VertexList) :
              /\ i <= n
              /\ doc.VertexList[i] = was.VertexList[i]
              /\ doc.TexturePatterns[i] = was.TexturePatterns[i]
              /\ ScaleOf(doc, i) = ScaleOf(was, i)
              /\ doc.Translate[i] = was.Translate[i]
        /\ n > Len(was.VertexList)
              => /\ n = Len(was.VertexList) + 1 /\ rf.iRead = 72
                 /\ Len(doc.TexturePatterns) = n /\ Len(doc.Scale) = n /\ Len(doc.Translate) = n
                 /\ doc.VertexList[n] # <<>> => doc.VertexList[n][1] = Unsigned(File(was), rf.start + 4, 4)
                 /\ doc.TexturePatterns[n] = was.TexturePatternIdx
                 /\ ScaleOf(doc, n) = was.CurrentScale
                 /\ doc.Translate[n] = was.CurrentTranslate

\* C23: Records['External'] holds no database whose parse ended with an
\* exception; and a pass of an external reference whose nested ReadFile
\* raises stores nothing, appends no node and ends with the exception.
C23_ExternalComplete ==
    /\ \A fileName \in DOMAIN doc.External :
          "e" \in DOMAIN doc.External[fileName] => doc.External[fileName].e = NoErr
    /\ (rf.iRead = 63 /\ rf.exc \in {ErrNoFile, ErrNotConform})
          => /\ doc.External = was.External
             /\ doc.heap = was.heap
             /\ pc = "idle" /\ doc.e = rf.exc

\* C24: a pass that decodes, without error, a record whose opcode has no
\* fixed size in the registry leaves the stream where the record, with the
\* continuation records read with it, ends by its declared length: the next
\* pass reads the opcode of the next record.
C24_VariableSizeAdvance ==
    (/\ rf.iRead \in DOMAIN OpCodes0
     /\ OpCodes0[rf.iRead].size = None
     /\ rf.exc = NoErr
     /\ rf.start + 4 <= FileSize(File(was)))
        => rf.end = IF rf.rc.parts # <<>> THEN NextRecord(rf.rc.parts)
                    ELSE rf.start + Unsigned(File(was), rf.start + 2, 2)

\* The sum of the registry sizes of the records from the i-th to the j-th.
RECURSIVE Sizes(_, _, _, _)
Sizes(d, recs, i, j) ==
    IF i > j THEN 0 ELSE OpCodes(d)[recs[i].op].size + Sizes(d, recs, i + 1, j)

\* The i-th record of the file read is a vertex, the p-th its vertex
\* palette: vertices alone lie between them, and no vertex and no palette
\* before the palette.
PaletteOf(recs, p, i) ==
    /\ 1 < p /\ p < i /\ i <= Len(recs)
    /\ recs[p].op = 67
    /\ \A k \in (p + 1)..i : recs[k].op \in 68..71
    /\ \A k \in 1..(p - 1) : recs[k].op \notin 67..71

TextureKeys == {k \in DOMAIN doc.External : "value" \in DOMAIN doc.External[k]}

\* C26: what _parseTextureFile returns is kept in Records['External'] under
\* the cleaned path of the texture, and no two entries are of one file: a
\* second texture palette record of a file parses nothing.
C26_TextureOnce ==
    /\ \A k \in TextureKeys : cleanExternalFilename(doc, k).fileName = k
    /\ \A k, l \in TextureKeys :
          resolve(cleanExternalFilename(doc, k).fileName)
              = resolve(cleanExternalFilename(doc, l).fileName) => k = l

\* C27: while ReadFile reads a file, no ReadFile that _opExtRef calls
\* enters the loop for that file again, and no parse comes to the recursion
\* limit of the interpreter.
C27_NoParseInProgressAgain ==
    /\ \A i \in 1..Len(rf.loaded) : resolve(rf.loaded[i]) # resolve(Main)
    /\ rf.exc # ErrRecursion
    /\ \A fileName \in DOMAIN doc.External :
          "e" \in DOMAIN doc.External[fileName] => doc.External[fileName].e # ErrRecursion

\* C28: a pass leaves the list of every instance whose number is not on
\* the instance stack as it found it: once the scope of an instance
\* definition has closed, no record changes the list kept under its number.
C28_ClosedInstanceKept ==
    \A k \in DOMAIN was.Instances :
        (\A i \in 1..Len(was.InstanceStack) : was.InstanceStack[i] # k)
            => /\ k \in DOMAIN doc.Instances
               /\ doc.Instances[k] = was.Instances[k]
               /\ doc.heap[doc.Instances[k]] = was.heap[was.Instances[k]]

\* The indices of stack from the i-th on lead from the list at, each to an
\* element within range that is a list and the list of no instance.
RECURSIVE ValidPath(_, _, _, _)
ValidPath(d, at, stack, i) ==
    LET child(list, idx) ==
            /\ idx >= 0 /\ idx < Len(list)
            /\ list[idx + 1].Datatype = "list"
            /\ \A k \in DOMAIN d.Instances : d.Instances[k] # list[idx + 1].at
            /\ ValidPath(d, list[idx + 1].at, stack, i + 1)
    IN  i > Len(stack) \/ child(d.heap[at], stack[i])

\* C29: in Tree mode the tree stack is a path in Records['Tree']: every
\* index is within range and addresses a list that a push has opened, never
\* a record nor the list of an instance; so in Tree mode a push and the
\* addition of a group end without error, the push one level deeper.
C29_TreeStackValid ==
    /\ doc.RecordType = "Tree" => ValidPath(doc, TreeAt, doc.TreeStack, 1)
    /\ (was.RecordType = "Tree" /\ Dispatched(10))
          => /\ rf.exc = NoErr
             /\ Len(doc.TreeStack) = Len(was.TreeStack) + 1
             /\ Current(doc).Datatype = "list" /\ doc.heap[Current(doc).at] = <<>>
    /\ (was.RecordType = "Tree" /\ Dispatched(2)) => rf.exc = NoErr

\* Two pushes after a group: the stack addresses the second element of the
\* tree and the first of the list there.
C29_Witness ==
    /\ doc.RecordType = "Tree"
    /\ doc.TreeStack = <<1, 0>>
    /\ rf.iRead = 10
    /\ doc.heap[TreeAt][1].Datatype = "Group"

\* C30: VertexList, TexturePatterns, Scale and Translate are of one length,
\* and VertexUV has as many entries as Records['Vertices'] has keys.
C30_ListsAligned ==
    /\ Len(doc.TexturePatterns) = Len(doc.VertexList)
    /\ Len(doc.Scale) = Len(doc.VertexList)
    /\ Len(doc.Translate) = Len(doc.VertexList)
    /\ Len(doc.VertexUV) = Cardinality(DOMAIN doc.Vertices)

\* Two vertices and two vertex lists have been decoded without error.
C30_Witness ==
    /\ rf.iRead = 72 /\ rf.exc = NoErr
    /\ Len(doc.VertexList) = 2
    /\ DOMAIN doc.Vertices = {8, 48}
    /\ doc.VertexUV = <<"None", "TextureCoordinate">>

====
